---------------------------- MODULE Spec2Model ----------------------------
(***************************************************************************)
(* navidown: a navigable markdown session.                                 *)
(*                                                                         *)
(* The module models the MarkdownSession state machine (load, width        *)
(* change, scrolling, link traversal, anchor jumps, back/forward history)  *)
(* together with the marker vocabulary, the marker extractor and the two   *)
(* position correlators the session uses to place elements in the          *)
(* rendered line buffer.                                                   *)
(*                                                                         *)
(* Strings are sequences of runes; a rune is a one-character TLA+ string,  *)
(* the four zero-width marker runes, ESC and U+2022 are named strings.     *)
(* Indices into rune sequences are 0-based as in the Go source; At(s, i)   *)
(* reads s[i].                                                             *)
(***************************************************************************)
EXTENDS Integers, Sequences, FiniteSets, TLC

At(s, i) == s[i + 1]

\* s[from:to] of Go (0-based, to exclusive)
Slice(s, from, to) == SubSeq(s, from + 1, to)

Min(a, b) == IF a < b THEN a ELSE b

Max(a, b) == IF a > b THEN a ELSE b

(***************************************************************************)
(* Marker vocabulary (markers.go)                                          *)
(***************************************************************************)
zws == "ZWS"

zwnj == "ZWNJ"

zwj == "ZWJ"

wj == "WJ"

LinkStartMarker == <<zws, zwnj>>

LinkEndMarker == <<zwnj, zws>>

headerMarkerPrefix == <<zwj>>

headerLevelChar == wj

HeaderEndMarker == <<zwj, zwnj>>

\* strings.Repeat(headerLevelChar, n)
Repeat(r, n) == [i \in 1..n |-> r]

HeaderStartMarker(level) ==
    LET l1 == IF level < 1 THEN 1 ELSE level
        l2 == IF l1 > 6 THEN 6 ELSE l1
    IN  headerMarkerPrefix \o Repeat(headerLevelChar, l2) \o headerMarkerPrefix

\* DecodeHeaderLevel: [panic, level]; marker[len(prefix) : len(marker)-len(prefix)]
\* is out of range when the prefix and the suffix are the same, only, rune
DecodeHeaderLevel(marker) ==
    IF Len(marker) < 1 \/ <<Head(marker)>> # headerMarkerPrefix
    THEN [panic |-> FALSE, level |-> 0]
    ELSE IF <<marker[Len(marker)]>> # headerMarkerPrefix
    THEN [panic |-> FALSE, level |-> 0]
    ELSE IF Len(marker) < 2
    THEN [panic |-> TRUE, level |-> 0]
    ELSE LET inner == SubSeq(marker, 2, Len(marker) - 1)
             level == Len(SelectSeq(inner, LAMBDA r : r = headerLevelChar))
         IN  IF level < 1 \/ level > 6 THEN [panic |-> FALSE, level |-> 0]
             ELSE [panic |-> FALSE, level |-> level]

IsMarkerRune(r) == r = zws \/ r = zwnj \/ r = zwj \/ r = wj

StripMarkers(s) == SelectSeq(s, LAMBDA r : ~IsMarkerRune(r))

(***************************************************************************)
(* Line cleaner of the ANSI renderer (renderer.go): strip every match of   *)
(* ESC [ [0-9;]* m, leftmost first, then strip the marker runes.           *)
(***************************************************************************)
ESC == "ESC"

IsSGRParam(r) == r \in {"0", "1", "2", "3", "4", "5", "6", "7", "8", "9", ";"}

\* index just past the run of [0-9;] starting at i
RECURSIVE SkipSGRParams(_, _)
SkipSGRParams(s, i) ==
    IF i < Len(s) /\ IsSGRParam(At(s, i)) THEN SkipSGRParams(s, i + 1) ELSE i

\* length of the match of ansiSGRPattern at i, 0 when there is none
SGRMatchLen(s, i) ==
    IF i + 1 < Len(s) /\ At(s, i) = ESC /\ At(s, i + 1) = "["
    THEN LET j == SkipSGRParams(s, i + 2)
         IN  IF j < Len(s) /\ At(s, j) = "m" THEN j + 1 - i ELSE 0
    ELSE 0

RECURSIVE StripANSIFrom(_, _)
StripANSIFrom(s, i) ==
    IF i >= Len(s) THEN <<>>
    ELSE LET n == SGRMatchLen(s, i)
         IN  IF n > 0 THEN StripANSIFrom(s, i + n)
             ELSE <<At(s, i)>> \o StripANSIFrom(s, i + 1)

stripANSIAndMarkers(s) == StripMarkers(StripANSIFrom(s, 0))

(***************************************************************************)
(* Marker extractor                                                        *)
(***************************************************************************)
MarkerTypeLink == "link"

MarkerTypeHeader == "header"

\* first index i >= startIdx with runes[i..] starting with marker, or -1
RECURSIVE findMarkerSequence(_, _, _)
findMarkerSequence(runes, startIdx, marker) ==
    IF startIdx > Len(runes) - Len(marker) THEN -1
    ELSE IF \A j \in 0..(Len(marker) - 1) : At(runes, startIdx + j) = At(marker, j)
         THEN startIdx
         ELSE findMarkerSequence(runes, startIdx + 1, marker)

findEndOfMarkedContent(runes, startIdx, endMarker) ==
    LET idx == findMarkerSequence(runes, startIdx, endMarker)
    IN  IF idx < 0 THEN Len(runes) ELSE idx + Len(endMarker)

calculateVisualColumn(runes, targetIdx) ==
    LET prefix  == Slice(runes, 0, Min(targetIdx, Len(runes)))
        cleaned == stripANSIAndMarkers(prefix)
    IN  Len(SelectSeq(cleaned, LAMBDA r : ~IsMarkerRune(r)))

NoPosition == [found |-> FALSE]

extractLinkMarker(runes, runeIdx, lineIdx) ==
    IF runeIdx + 1 >= Len(runes) \/ At(runes, runeIdx) # zws
          \/ At(runes, runeIdx + 1) # zwnj
    THEN NoPosition
    ELSE LET endIdx == findMarkerSequence(runes, runeIdx + 2, LinkEndMarker)
         IN  IF endIdx < 0 THEN NoPosition
             ELSE [found    |-> TRUE,
                   Type     |-> MarkerTypeLink,
                   Level    |-> 0,
                   LineIdx  |-> lineIdx,
                   StartCol |-> calculateVisualColumn(runes, runeIdx + 2),
                   EndCol   |-> calculateVisualColumn(runes, endIdx)]

\* index just past the run of WJ starting at i
RECURSIVE SkipLevelChars(_, _)
SkipLevelChars(runes, i) ==
    IF i < Len(runes) /\ At(runes, i) = wj THEN SkipLevelChars(runes, i + 1) ELSE i

extractHeaderMarker(runes, runeIdx, lineIdx) ==
    IF At(runes, runeIdx) # zwj THEN NoPosition
    ELSE LET i     == SkipLevelChars(runes, runeIdx + 1)
             level == i - (runeIdx + 1)
         IN  IF level < 1 \/ level > 6 \/ i >= Len(runes) \/ At(runes, i) # zwj
             THEN NoPosition
             ELSE LET contentStart == i + 1
                      endIdx == findMarkerSequence(runes, contentStart, HeaderEndMarker)
                  IN  IF endIdx < 0 THEN NoPosition
                      ELSE [found    |-> TRUE,
                            Type     |-> MarkerTypeHeader,
                            Level    |-> level,
                            LineIdx  |-> lineIdx,
                            StartCol |-> calculateVisualColumn(runes, contentStart),
                            EndCol   |-> calculateVisualColumn(runes, endIdx)]

\* the scan loop of extractMarkersFromLine, from index i on
RECURSIVE extractMarkersFrom(_, _, _)
extractMarkersFrom(runes, i, lineIdx) ==
    IF i >= Len(runes) THEN <<>>
    ELSE LET lp == IF i + 1 < Len(runes) /\ At(runes, i) = zws /\ At(runes, i + 1) = zwnj
                   THEN extractLinkMarker(runes, i, lineIdx)
                   ELSE NoPosition
             hp == IF At(runes, i) = zwj
                   THEN extractHeaderMarker(runes, i, lineIdx)
                   ELSE NoPosition
         IN  IF lp.found
             THEN <<lp>> \o extractMarkersFrom(runes,
                                findEndOfMarkedContent(runes, i, LinkEndMarker), lineIdx)
             ELSE IF hp.found
             THEN <<hp>> \o extractMarkersFrom(runes,
                                findEndOfMarkedContent(runes, i, HeaderEndMarker), lineIdx)
             ELSE extractMarkersFrom(runes, i + 1, lineIdx)

extractMarkersFromLine(line, lineIdx) == extractMarkersFrom(line, 0, lineIdx)

RECURSIVE ExtractFromLines(_, _)
ExtractFromLines(lines, lineIdx) ==
    IF lineIdx >= Len(lines) THEN <<>>
    ELSE extractMarkersFromLine(At(lines, lineIdx), lineIdx)
            \o ExtractFromLines(lines, lineIdx + 1)

ExtractAllMarkers(lines) == ExtractFromLines(lines, 0)

(***************************************************************************)
(* Rune classes of package unicode, on the alphabet the model uses         *)
(***************************************************************************)
LowerLetters == {"a", "b", "c", "d", "e", "f", "g", "h", "k", "l", "m", "n", "o", "p", "t", "x"}

UpperLetters == {"A", "B", "C", "T", "X"}

IsLetter(r) == r \in LowerLetters \cup UpperLetters

IsDigit(r) == r \in {"0", "1", "2", "3", "4", "5", "6", "7", "8", "9"}

IsSpace(r) == r = " "

ToLower(r) ==
    CASE r = "A" -> "a"
      [] r = "B" -> "b"
      [] r = "C" -> "c"
      [] r = "T" -> "t"
      [] r = "X" -> "x"
      [] OTHER   -> r

RECURSIVE TrimLeft(_)
TrimLeft(s) == IF s # <<>> /\ IsSpace(Head(s)) THEN TrimLeft(Tail(s)) ELSE s

RECURSIVE TrimRight(_)
TrimRight(s) ==
    IF s # <<>> /\ IsSpace(s[Len(s)]) THEN TrimRight(SubSeq(s, 1, Len(s) - 1)) ELSE s

TrimSpace(s) == TrimRight(TrimLeft(s))

\* strings.Contains(s, sub)
Contains(s, sub) == findMarkerSequence(s, 0, sub) >= 0

(***************************************************************************)
(* Scoring correlator (correlator.go)                                      *)
(***************************************************************************)
NavElementHeader == "Header"

NavElementURL == "URL"

isWordBoundaryRunes(runes, pos) ==
    IF pos < 0 \/ pos > Len(runes) THEN TRUE
    ELSE IF pos = 0 \/ pos = Len(runes) THEN TRUE
    ELSE LET r == At(runes, pos)
         IN  IsSpace(r) \/ r \in {"BULLET", ".", ",", ":", ";", "!", "?", "#"}

scoreMatchRunes(runes, startCol, endCol, elemType, elemLevel) ==
    LET startBoundary == isWordBoundaryRunes(runes, startCol)
        endBoundary   == isWordBoundaryRunes(runes, endCol)
        inWord == startCol > 0 /\ startCol < Len(runes)
                    /\ (IsLetter(At(runes, startCol - 1)) \/ IsDigit(At(runes, startCol - 1)))
        insideWord == ~startBoundary /\ ~endBoundary
                    /\ endCol > 0 /\ endCol < Len(runes) /\ inWord
                    /\ (IsLetter(At(runes, endCol)) \/ IsDigit(At(runes, endCol)))
        boundary == IF startBoundary /\ endBoundary THEN 100
                    ELSE IF startBoundary \/ endBoundary THEN 50
                    ELSE 25
        header == IF elemType = NavElementHeader /\ Contains(runes, <<"#", "#">>)
                  THEN 50 + (IF Contains(runes, Repeat("#", elemLevel)) THEN 10 ELSE 0)
                  ELSE 0
        position == IF startCol = 0 THEN 30
                    ELSE IF startCol < 15 THEN 10
                    ELSE IF startCol < 30 THEN 5
                    ELSE 0
        matchLen == endCol - startCol
        length == IF matchLen >= 15 THEN 50
                  ELSE IF matchLen >= 10 THEN 30
                  ELSE IF matchLen >= 5 THEN 10
                  ELSE 0
    IN  IF insideWord THEN 0 ELSE boundary + header + position + length

\* the search loop of findCandidateMatches, from searchOffset on
RECURSIVE findCandidatesFrom(_, _, _, _, _, _)
findCandidatesFrom(elemText, cleanLine, searchOffset, lineIdx, elemType, elemLevel) ==
    LET idx == findMarkerSequence(cleanLine, searchOffset, elemText)
    IN  IF idx < 0 THEN <<>>
        ELSE LET endIdx == idx + Len(elemText)
                 score  == scoreMatchRunes(cleanLine, idx, endIdx, elemType, elemLevel)
                 cand   == IF score > 0
                           THEN <<[lineIdx |-> lineIdx, score |-> score,
                                   startCol |-> idx, endCol |-> endIdx]>>
                           ELSE <<>>
             IN  IF endIdx >= Len(cleanLine) THEN cand
                 ELSE cand \o findCandidatesFrom(elemText, cleanLine, endIdx,
                                                 lineIdx, elemType, elemLevel)

findCandidateMatches(elemText, cleanLine, lineIdx, elemType, elemLevel) ==
    findCandidatesFrom(elemText, cleanLine, 0, lineIdx, elemType, elemLevel)

RECURSIVE allCandidatesFrom(_, _, _, _, _)
allCandidatesFrom(elemText, lines, lineIdx, elemType, elemLevel) ==
    IF lineIdx >= Len(lines) THEN <<>>
    ELSE findCandidateMatches(elemText, stripANSIAndMarkers(At(lines, lineIdx)),
                              lineIdx, elemType, elemLevel)
            \o allCandidatesFrom(elemText, lines, lineIdx + 1, elemType, elemLevel)

\* the best-candidate loop: a later candidate replaces the best one when its
\* score is higher, or equal with a lower line index
RECURSIVE bestOf(_, _)
bestOf(best, rest) ==
    IF rest = <<>> THEN best
    ELSE LET c == Head(rest)
         IN  IF c.score > best.score
                  \/ (c.score = best.score /\ c.lineIdx < best.lineIdx)
             THEN bestOf(c, Tail(rest))
             ELSE bestOf(best, Tail(rest))

NotFound == [found |-> FALSE, lineIdx |-> 0, startCol |-> 0, endCol |-> 0]

ScoringCorrelatePosition(elem, lines) ==
    LET elemText == TrimSpace(elem.Text)
    IN  IF elemText = <<>> THEN NotFound
        ELSE LET all == allCandidatesFrom(elemText, lines, 0, elem.Type, elem.Level)
             IN  IF all = <<>> THEN NotFound
                 ELSE LET b == bestOf(Head(all), Tail(all))
                      IN  [found |-> TRUE, lineIdx |-> b.lineIdx,
                           startCol |-> b.startCol, endCol |-> b.endCol]

(***************************************************************************)
(* Marker correlator (marker_correlator.go).  Reset is called at the start *)
(* of every correlatePositions, so the correlator state lives only inside  *)
(* one correlation pass: mc = [linkCounter, headerCounter].                *)
(***************************************************************************)
NewMarkerCorrelator == [linkCounter |-> 0, headerCounter |-> [l \in 0..6 |-> 0]]

\* the positions of cachedPositions that are links / headers of one level
LinkPositions(cachedPositions) ==
    SelectSeq(cachedPositions, LAMBDA pos : pos.Type = MarkerTypeLink)

HeaderPositions(cachedPositions, level) ==
    SelectSeq(cachedPositions, LAMBDA pos : pos.Type = MarkerTypeHeader /\ pos.Level = level)

FoundAt(pos) ==
    [found |-> TRUE, lineIdx |-> pos.LineIdx, startCol |-> pos.StartCol, endCol |-> pos.EndCol]

\* a lookup that leaves the link counter where it was
correlateLinkPositionAgain(mc, cachedPositions) ==
    LET links == SelectSeq(cachedPositions, LAMBDA pos : pos.Type = MarkerTypeLink)
    IN  IF mc.linkCounter < Len(links)
        THEN [res |-> [found |-> TRUE, lineIdx |-> At(links, mc.linkCounter).LineIdx,
                       startCol |-> At(links, mc.linkCounter).StartCol,
                       endCol |-> At(links, mc.linkCounter).EndCol],
              mc  |-> mc]
        ELSE [res |-> [found |-> FALSE, lineIdx |-> 0, startCol |-> 0, endCol |-> 0],
              mc |-> mc]

correlateLinkPosition(mc, cachedPositions) ==
    LET links == LinkPositions(cachedPositions)
    IN  IF mc.linkCounter < Len(links)
        THEN [res |-> FoundAt(At(links, mc.linkCounter)),
              mc  |-> [mc EXCEPT !.linkCounter = @ + 1]]
        ELSE [res |-> NotFound, mc |-> mc]

correlateHeaderPosition(mc, cachedPositions, level) ==
    LET headers == HeaderPositions(cachedPositions, level)
        target  == mc.headerCounter[level]
    IN  IF target < Len(headers)
        THEN [res |-> FoundAt(At(headers, target)),
              mc  |-> [mc EXCEPT !.headerCounter[level] = @ + 1]]
        ELSE [res |-> NotFound, mc |-> mc]

\* the positional answer of CorrelatePosition, on filled cachedPositions
correlateByMarkers(mc, elem, cachedPositions) ==
    IF Len(cachedPositions) = 0 THEN [res |-> NotFound, mc |-> mc]
    ELSE IF elem.Type = NavElementURL THEN correlateLinkPosition(mc, cachedPositions)
    ELSE correlateHeaderPosition(mc, cachedPositions, elem.Level)

\* no markers at all, or no marker left for the element: the fallback answers
\* no fallback: the answer of the markers as it is
orNothing(r, mc, elem, lines) == r

orFallback(r, mc, elem, lines) ==
    IF r.res.found THEN r ELSE [res |-> ScoringCorrelatePosition(elem, lines), mc |-> mc]

\* MarkerCorrelator.CorrelatePosition: [res, mc]
CorrelatePosition(mc, elem, lines) ==
    orFallback(correlateByMarkers(mc, elem, ExtractAllMarkers(lines)), mc, elem, lines)

\* the correlator as an object that outlives a pass: the counters and the
\* cache of extracted positions (a nil list is the empty one)
MarkerCorrelator ==
    [cachedPositions |-> <<>>, cachedLineCount |-> 0, cachedFirstLine |-> <<>>,
     linkCounter |-> 0, headerCounter |-> [l \in 0..6 |-> 0]]

Reset(mc) == MarkerCorrelator

isCacheValid(mc, lines) ==
    IF mc.cachedPositions = <<>> THEN FALSE
    ELSE IF Len(lines) # mc.cachedLineCount THEN FALSE
    ELSE IF Len(lines) > 0 THEN lines[1] = mc.cachedFirstLine
    ELSE mc.cachedFirstLine = <<>>

\* the head of CorrelatePosition: extract again unless the cache is valid
refreshCache(mc, lines) ==
    IF isCacheValid(mc, lines) THEN mc
    ELSE [mc EXCEPT !.cachedPositions = ExtractAllMarkers(lines),
                    !.cachedLineCount = Len(lines),
                    !.cachedFirstLine = IF Len(lines) > 0 THEN lines[1] ELSE <<>>]

\* MarkerCorrelator.CorrelatePosition on the object: [res, mc]
CorrelatePositionCached(mc, elem, lines) ==
    LET cached == refreshCache(mc, lines)
    IN  orFallback(correlateByMarkers(cached, elem, cached.cachedPositions),
                   cached, elem, lines)

(***************************************************************************)
(* Documents.  A markdown source is named by a string; the parser          *)
(* (goldmark) and the styled renderer (glamour) see it as a sequence of    *)
(* blocks: a heading, a paragraph that is one link, or a plain paragraph.  *)
(***************************************************************************)
Heading(level, text) == [kind |-> "heading", level |-> level, text |-> text, dest |-> ""]

Link(text, dest) == [kind |-> "link", level |-> 0, text |-> text, dest |-> dest]

Para(text) == [kind |-> "text", level |-> 0, text |-> text, dest |-> ""]

Page1 == "p1"

Page2 == "p2"

Page3 == "p3"

Page4 == "p4"

Page5 == "p5"

Page6 == "p6"

Blocks(source) ==
    CASE source = Page1 ->
            << Heading(1, <<"T", "o", "p">>),
               Link(<<"g", "o">>, "p2"),
               Link(<<"u", "p">>, "#top") >>
      [] source = Page2 ->
            << Link(<<"a", "b", " ", "c", "d">>, "p1"),
               Heading(2, <<"T", "o", "p">>) >>
      [] source = Page3 ->
            << Link(<<"g", "o">>, "p4") >>
      [] source = Page4 ->
            << Link(<<"u", "p">>, "p3"),
               Heading(1, <<"T", "o", "p">>) >>
      [] source = Page5 ->
            << Link(<<"a", "b", " ", "c", "d">>, "p1"),
               Heading(1, <<"T", "o", "p">>),
               Link(<<"e", "f", " ", "g", "h">>, "p2"),
               Link(<<"u", "p">>, "#top") >>
      [] source = Page6 ->
            << Link(<<"g", "o">>, "p1"),
               Link(<<"g", "o">>, "p1") >>
      [] OTHER -> << >>

\* the file each document is loaded from
PathOf(source) ==
    CASE source = Page1 -> "a.md"
      [] source = Page2 -> "b.md"
      [] source = Page3 -> "c.md"
      [] source = Page4 -> "d.md"
      [] source = Page5 -> "e.md"
      [] source = Page6 -> "f.md"
      [] OTHER -> ""

Sources == {"", Page1, Page2}

HistorySources == {Page3, Page4}

AllSources == Sources \cup HistorySources \cup {Page5, Page6}

\* a link to a page of the web
HTTPURL == "http://h"

\* the source paths of the files
SourcePaths == {PathOf(source) : source \in AllSources}

\* the widths a host sets, and the word-wrap limits they lead to
Cols == {-1, 0, 3, 5}

WordWraps == {0} \cup {cols \in Cols : cols > 0}

(***************************************************************************)
(* Parsing (markdown_session.go)                                           *)
(***************************************************************************)
generateSlugRune(r) ==
    IF IsLetter(r) \/ IsDigit(r) THEN <<ToLower(r)>>
    ELSE IF r = " " THEN <<"-">>
    ELSE IF r = "-" \/ r = "_" THEN <<r>>
    ELSE <<>>

RECURSIVE generateSlugFrom(_)
generateSlugFrom(trimmed) ==
    IF trimmed = <<>> THEN <<>>
    ELSE generateSlugRune(Head(trimmed)) \o generateSlugFrom(Tail(trimmed))

generateSlug(text) == generateSlugFrom(TrimSpace(text))

\* the decimal digits of n >= 0, as fmt.Sprintf("%d", n) writes them
RECURSIVE Itoa(_)
Itoa(n) ==
    LET d == At(<<"0", "1", "2", "3", "4", "5", "6", "7", "8", "9">>, n % 10)
    IN  IF n < 10 THEN <<d>> ELSE Itoa(n \div 10) \o <<d>>

\* a count that takes every earlier heading for one of the same base slug
slugCountOfAll(blocks, baseSlug) == Len(SelectSeq(blocks, LAMBDA b : b.kind = "heading"))

\* number of headings among blocks whose base slug is baseSlug
RECURSIVE slugCount(_, _)
slugCount(blocks, baseSlug) ==
    IF blocks = <<>> THEN 0
    ELSE slugCount(SubSeq(blocks, 1, Len(blocks) - 1), baseSlug)
           + (IF blocks[Len(blocks)].kind = "heading"
                    /\ generateSlug(blocks[Len(blocks)].text) = baseSlug
              THEN 1 ELSE 0)

\* the NavElement the walk appends for block i (1-based) of blocks
ParsedElement(blocks, i, sourceFilePath) ==
    LET b == blocks[i]
        baseSlug == generateSlug(b.text)
        count == slugCount(SubSeq(blocks, 1, i - 1), baseSlug)
    IN  [Type           |-> IF b.kind = "heading" THEN NavElementHeader ELSE NavElementURL,
         Text           |-> b.text,
         URL            |-> b.dest,
         Level          |-> b.level,
         Slug           |-> IF b.kind = "heading"
                            THEN (IF count > 0 THEN baseSlug \o <<"-">> \o Itoa(count)
                                  ELSE baseSlug)
                            ELSE <<>>,
         SourceFilePath |-> sourceFilePath,
         StartLine      |-> 0,
         EndLine        |-> 0,
         StartCol       |-> 0,
         EndCol         |-> 0]

RECURSIVE parseBlocks(_, _, _)
parseBlocks(blocks, i, sourceFilePath) ==
    IF i > Len(blocks) THEN <<>>
    ELSE (IF blocks[i].kind = "text" THEN <<>>
          ELSE <<ParsedElement(blocks, i, sourceFilePath)>>)
            \o parseBlocks(blocks, i + 1, sourceFilePath)

parseMarkdownWithSource(source, sourceFilePath) ==
    parseBlocks(Blocks(source), 1, sourceFilePath)

(***************************************************************************)
(* Rendering (renderer.go, the heading element of the vendored glamour).   *)
(* A block is written on one line: a heading as SGR, prefix, start marker, *)
(* text, end marker, SGR reset; a link as start marker, text, end marker.  *)
(* The markers are written before word wrap, which then breaks the line at *)
(* spaces; zero-width runes and SGR sequences take no room.                *)
(***************************************************************************)
SGRBold == <<ESC, "[", "1", "m">>

SGRReset == <<ESC, "[", "0", "m">>

headingPrefix(level) == IF level >= 2 THEN Repeat("#", level) \o <<" ">> ELSE <<>>

BlockLine(b) ==
    CASE b.kind = "heading" ->
            SGRBold \o headingPrefix(b.level) \o HeaderStartMarker(b.level)
                \o b.text \o HeaderEndMarker \o SGRReset
      [] b.kind = "link" -> LinkStartMarker \o b.text \o LinkEndMarker
      [] OTHER -> b.text

\* the words of a line: maximal runs without a space
RECURSIVE SplitWords(_, _)
SplitWords(runes, word) ==
    IF runes = <<>> THEN <<word>>
    ELSE IF Head(runes) = " " THEN <<word>> \o SplitWords(Tail(runes), <<>>)
    ELSE SplitWords(Tail(runes), Append(word, Head(runes)))

PrintableWidth(runes) == Len(stripANSIAndMarkers(runes))

\* greedy word wrap: cur is the line being filled
RECURSIVE WrapWords(_, _, _)
WrapWords(words, cur, limit) ==
    IF words = <<>> THEN <<cur>>
    ELSE LET w == Head(words)
         IN  IF PrintableWidth(cur) + 1 + PrintableWidth(w) <= limit
             THEN WrapWords(Tail(words), cur \o <<" ">> \o w, limit)
             ELSE <<cur>> \o WrapWords(Tail(words), w, limit)

WordWrap(line, limit) ==
    IF limit <= 0 THEN <<line>>
    ELSE LET words == SplitWords(line, <<>>)
         IN  WrapWords(Tail(words), Head(words), limit)

RECURSIVE RenderBlocks(_, _)
RenderBlocks(blocks, wrap) ==
    IF blocks = <<>> THEN <<>>
    ELSE WordWrap(BlockLine(Head(blocks)), wrap) \o RenderBlocks(Tail(blocks), wrap)

\* ANSIStyleRenderer.Render: strings.Split yields at least one line
Render(md, wrap) ==
    LET out == RenderBlocks(Blocks(md), wrap)
    IN  IF out = <<>> THEN << <<>> >> ELSE out

(***************************************************************************)
(* correlatePositions (markdown_session.go)                                *)
(***************************************************************************)
\* first loop: the correlator's answer for elements i.. (0-based), threading
\* the correlator state
RECURSIVE correlateFrom(_, _, _, _)
\* element i answered by r = [res, mc]: the loop goes on with r.mc
correlateNext(r, elems, i, lines) ==
    <<r.res>> \o correlateFrom(r.mc, elems, i + 1, lines)

correlateFrom(mc, elems, i, lines) ==
    IF i >= Len(elems) THEN <<>>
    ELSE correlateNext(CorrelatePosition(mc, At(elems, i), lines), elems, i, lines)

PositionKey(c) == <<c.lineIdx, c.startCol>>

\* the length of the first match for key and not the longest
firstLen(correlations, key) ==
    LET first == CHOOSE j \in 1..Len(correlations) :
                    /\ correlations[j].found /\ PositionKey(correlations[j]) = key
                    /\ \A k \in 1..(j - 1) :
                          ~(correlations[k].found /\ PositionKey(correlations[k]) = key)
    IN  correlations[first].endCol - correlations[first].startCol

\* second loop: usedPositions[key] is the longest match length for key
WinningLen(correlations, key) ==
    LET lens == {correlations[j].endCol - correlations[j].startCol :
                    j \in {k \in 1..Len(correlations) :
                            correlations[k].found /\ PositionKey(correlations[k]) = key}}
    IN  CHOOSE l \in lens : \A o \in lens : o <= l

\* third loop: an element takes its position iff it is found and as long as
\* the winner of its key
applyCorrelations(elems, correlations) ==
    [i \in 1..Len(elems) |->
        LET c == correlations[i]
        IN  IF c.found /\ c.endCol - c.startCol = WinningLen(correlations, PositionKey(c))
            THEN [elems[i] EXCEPT !.StartLine = c.lineIdx, !.EndLine = c.lineIdx,
                                     !.StartCol = c.startCol, !.EndCol = c.endCol]
            ELSE elems[i]]

correlatePositions(elems, lines) ==
    IF Len(elems) = 0 \/ Len(lines) = 0 THEN elems
    ELSE applyCorrelations(elems,
            correlateFrom(NewMarkerCorrelator, elems, 0, lines))

(***************************************************************************)
(* The render, the parse and the correlation of each document of the model *)
(* at each word-wrap limit, computed once.  The session's steps look them  *)
(* up: Rendered is Render, Parsed is parseMarkdownWithSource, and          *)
(* Correlated is correlatePositions on the elements of document md and its *)
(* render at wrap (the correlators read an element's Type, Text and Level  *)
(* only, which no step changes, and TabulationFaithful states the match).  *)
(***************************************************************************)
RenderOf == [md \in AllSources |-> [wrap \in WordWraps |-> Render(md, wrap)]]

ParsedOf ==
    [md \in AllSources |-> [path \in SourcePaths |-> parseMarkdownWithSource(md, path)]]

CorrelationsOf ==
    [md \in AllSources |-> [wrap \in WordWraps |->
        correlateFrom(NewMarkerCorrelator, ParsedOf[md][PathOf(md)], 0, RenderOf[md][wrap])]]

Rendered(md, wrap) == RenderOf[md][wrap]

\* the parse of md at a source path, tabulated for the paths of the files
Parsed(md, path) ==
    IF path \in SourcePaths THEN ParsedOf[md][path]
    ELSE parseMarkdownWithSource(md, path)

Correlated(elems, md, wrap) ==
    IF Len(elems) = 0 \/ Len(Rendered(md, wrap)) = 0 THEN elems
    ELSE applyCorrelations(elems, CorrelationsOf[md][wrap])

(***************************************************************************)
(* Navigation history (history.go): h = [backStack, forwardStack, maxSize] *)
(***************************************************************************)
NewNavigationHistory(maxSize) ==
    [backStack |-> <<>>, forwardStack |-> <<>>, maxSize |-> maxSize]

\* a trim that keeps the oldest entries
trimOldest(h, slice) ==
    IF h.maxSize <= 0 THEN slice
    ELSE IF Len(slice) <= h.maxSize THEN slice
    ELSE Slice(slice, 0, h.maxSize)

trim(h, slice) ==
    IF h.maxSize <= 0 THEN slice
    ELSE IF Len(slice) <= h.maxSize THEN slice
    ELSE Slice(slice, Len(slice) - h.maxSize, Len(slice))

CanGoBack(h) == Len(h.backStack) > 0

CanGoForward(h) == Len(h.forwardStack) > 0

\* a Push that leaves the forward stack alone
PushKeepsForward(h, state) ==
    [h EXCEPT !.backStack = trim(h, Append(h.backStack, state))]

Push(h, state) ==
    [h EXCEPT !.backStack = trim(h, Append(h.backStack, state)),
              !.forwardStack = <<>>]

PushToForward(h, state) ==
    [h EXCEPT !.forwardStack = trim(h, Append(h.forwardStack, state))]

PushToBack(h, state) ==
    [h EXCEPT !.backStack = trim(h, Append(h.backStack, state))]

\* a Back that takes the oldest entry
BackOldest(h) ==
    IF ~CanGoBack(h) THEN [ok |-> FALSE, state |-> <<>>, h |-> h]
    ELSE [ok    |-> TRUE,
          state |-> At(h.backStack, 0),
          h     |-> [h EXCEPT !.backStack = Slice(h.backStack, 1, Len(h.backStack))]]

\* Back and Forward: [ok, state, h]
Back(h) ==
    IF ~CanGoBack(h) THEN [ok |-> FALSE, state |-> <<>>, h |-> h]
    ELSE [ok    |-> TRUE,
          state |-> At(h.backStack, Len(h.backStack) - 1),
          h     |-> [h EXCEPT !.backStack = Slice(h.backStack, 0, Len(h.backStack) - 1)]]

\* the top of the forward stack, left on the stack
ForwardPeek(h) ==
    IF ~CanGoForward(h) THEN [ok |-> FALSE, state |-> <<>>, h |-> h]
    ELSE [ok |-> TRUE, state |-> At(h.forwardStack, Len(h.forwardStack) - 1), h |-> h]

Forward(h) ==
    IF ~CanGoForward(h) THEN [ok |-> FALSE, state |-> <<>>, h |-> h]
    ELSE [ok    |-> TRUE,
          state |-> At(h.forwardStack, Len(h.forwardStack) - 1),
          h     |-> [h EXCEPT !.forwardStack =
                                Slice(h.forwardStack, 0, Len(h.forwardStack) - 1)]]

(***************************************************************************)
(* The session (markdown_session.go)                                       *)
(***************************************************************************)
VARIABLES
    markdown,             \* current markdown source
    currentSourceFile,    \* source file path context
    renderedLines,        \* decorated lines of the current render
    elements,             \* navigable elements, in document order
    selectedIndex,        \* index into elements, -1 for none
    scrollOffset,         \* index of the first visible line
    history,              \* NavigationHistory of PageState
    currentWidth,         \* rendering width, 0 means no wrapping
    alwaysScrollToAnchor, \* Options.AlwaysScrollToAnchor
    wordWrap,             \* the wordWrap field of the session's ANSIStyleRenderer
    last                  \* the last call and what it returned: [op, ret]; a
                          \* GoForward that went forward adds from, the state it left

sessionVars ==
    <<markdown, currentSourceFile, renderedLines, elements, selectedIndex,
      scrollOffset, history, currentWidth>>

vars ==
    <<markdown, currentSourceFile, renderedLines, elements, selectedIndex,
      scrollOffset, history, currentWidth, alwaysScrollToAnchor, wordWrap, last>>

\* the session's fields, which a bare history does not touch
pageVars ==
    <<markdown, currentSourceFile, renderedLines, elements, selectedIndex,
      scrollOffset, currentWidth, alwaysScrollToAnchor, wordWrap>>

\* inputs
MaxViewport == 2

ViewportHeights == 0..MaxViewport

MaxHistory == 2

Slugs == {<<"t", "o", "p">>, <<"n", "o">>}

DefaultHistoryMax == 50

\* New: the history maximum the options give
HistoryMaxOf(optsHistoryMax) ==
    IF optsHistoryMax <= 0 THEN DefaultHistoryMax ELSE optsHistoryMax

\* New: an empty session; the history maximum comes from the options
New(optsHistoryMax) ==
    /\ markdown = ""
    /\ currentSourceFile = ""
    /\ renderedLines = <<>>
    /\ elements = <<>>
    /\ selectedIndex = -1
    /\ scrollOffset = 0
    /\ history = NewNavigationHistory(HistoryMaxOf(optsHistoryMax))
    /\ currentWidth = 0
    /\ alwaysScrollToAnchor \in BOOLEAN
    /\ wordWrap = 0
    /\ last = [op |-> "New", ret |-> "nil"]

saveCurrentState ==
    [Markdown       |-> markdown,
     SourceFilePath |-> currentSourceFile,
     SelectedIndex  |-> selectedIndex,
     ScrollOffset   |-> scrollOffset,
     Elements       |-> elements,
     RenderedLines  |-> renderedLines,
     Width          |-> currentWidth]

\* a restoreState that never keeps the selection
RestoredSelectionNone(state) == -1

\* the selection restoreState keeps
RestoredSelection(state) ==
    IF state.SelectedIndex < 0 \/ state.SelectedIndex >= Len(state.Elements) THEN -1
    ELSE IF At(state.Elements, state.SelectedIndex).Type = NavElementHeader THEN -1
    ELSE state.SelectedIndex

\* a restoreState that leaves the rendering width as it is
restoreStateKeepsWidth(state) ==
    /\ markdown' = state.Markdown
    /\ currentSourceFile' = state.SourceFilePath
    /\ scrollOffset' = state.ScrollOffset
    /\ UNCHANGED currentWidth
    /\ elements' = state.Elements
    /\ renderedLines' = state.RenderedLines
    /\ selectedIndex' = RestoredSelection(state)

restoreState(state) ==
    /\ markdown' = state.Markdown
    /\ currentSourceFile' = state.SourceFilePath
    /\ scrollOffset' = state.ScrollOffset
    /\ currentWidth' = state.Width
    /\ elements' = state.Elements
    /\ renderedLines' = state.RenderedLines
    /\ selectedIndex' = RestoredSelection(state)

\* rendererForWidth: WithWordWrap(cols) sets the renderer's field when cols > 0
rendererForWidth(cols) == IF cols > 0 THEN cols ELSE wordWrap

\* SetMarkdownWithSource, the render failed: "Nothing mutated, viewer still valid"
loadFails ==
    /\ last' = [op |-> "SetMarkdownWithSource", ret |-> "err"]
    /\ UNCHANGED sessionVars

\* a push that does not look whether a page is loaded
pushOnLoadAlways(pushToHistory) ==
    IF pushToHistory THEN Push(history, saveCurrentState) ELSE history

\* SetMarkdownWithSource, "Now safe to push history": the history it leaves
pushOnLoad(pushToHistory) ==
    IF pushToHistory /\ markdown # "" THEN Push(history, saveCurrentState) ELSE history

\* a commit that leaves the selection and the scroll offset of the old page
commitLoadKeepsScroll(content, sourceFilePath, wrap) ==
    /\ markdown' = content
    /\ currentSourceFile' = sourceFilePath
    /\ elements' = Correlated(Parsed(content, sourceFilePath), content, wrap)
    /\ renderedLines' = Rendered(content, wrap)
    /\ UNCHANGED <<selectedIndex, scrollOffset>>

\* SetMarkdownWithSource, "Mutate state atomically": the new page, its render at
\* wrap, its elements correlated to it, no selection, scrolled to the top
commitLoad(content, sourceFilePath, wrap) ==
    /\ markdown' = content
    /\ currentSourceFile' = sourceFilePath
    /\ elements' = Correlated(Parsed(content, sourceFilePath), content, wrap)
    /\ renderedLines' = Rendered(content, wrap)
    /\ selectedIndex' = -1
    /\ scrollOffset' = 0

\* a load that pushes the history entry before it renders
SetMarkdownWithSourcePushFirst(content, sourceFilePath, pushToHistory, renderErr) ==
    /\ wordWrap' = rendererForWidth(currentWidth)
    /\ IF renderErr
       THEN /\ last' = [op |-> "SetMarkdownWithSource", ret |-> "err"]
            /\ UNCHANGED <<markdown, currentSourceFile, renderedLines, elements,
                           selectedIndex, scrollOffset, currentWidth>>
       ELSE /\ last' = [op |-> "SetMarkdownWithSource", ret |-> "nil"]
            /\ commitLoad(content, sourceFilePath, rendererForWidth(currentWidth))
            /\ UNCHANGED currentWidth
    /\ history' = pushOnLoad(pushToHistory)
    /\ UNCHANGED alwaysScrollToAnchor

\* renderErr: the renderer returns an error for this call
SetMarkdownWithSource(content, sourceFilePath, pushToHistory, renderErr) ==
    /\ wordWrap' = rendererForWidth(currentWidth)
    /\ IF renderErr
       THEN loadFails
       ELSE /\ last' = [op |-> "SetMarkdownWithSource", ret |-> "nil"]
            /\ commitLoad(content, sourceFilePath, rendererForWidth(currentWidth))
            /\ history' = pushOnLoad(pushToHistory)
            /\ UNCHANGED currentWidth
    /\ UNCHANGED alwaysScrollToAnchor

(***************************************************************************)
(* Content fetcher (correlator.go).  The provider is outside: what         *)
(* FetchContent returns is an input of the call.  The file system holds    *)
(* the files of the documents of the model and no other.                   *)
(***************************************************************************)
isHTTPURL(url) == url = HTTPURL

\* OnSelect, the new source path: the URL, or the file ResolveMarkdownPath
\* finds for it
newSourcePath(elem) ==
    IF ~isHTTPURL(elem.URL) /\ elem.SourceFilePath # "" /\ PathOf(elem.URL) # ""
    THEN PathOf(elem.URL)
    ELSE elem.URL

\* OnSelect returns an error before it loads
fetchFails(err) ==
    /\ last' = [op |-> "OnSelect", ret |-> err]
    /\ UNCHANGED <<sessionVars, alwaysScrollToAnchor, wordWrap>>

\* an OnSelect that loads what the provider returns, empty or not
OnSelectUnchecked(viewerNil, elem, fetchErr, content, renderErr) ==
    IF viewerNil THEN fetchFails("ErrNilViewer")
    ELSE IF elem.Type # NavElementURL THEN fetchFails("ErrNotLink")
    ELSE IF fetchErr THEN fetchFails("fetch content")
    ELSE /\ wordWrap' = rendererForWidth(currentWidth)
         /\ IF renderErr
            THEN /\ last' = [op |-> "OnSelect", ret |-> "err"]
                 /\ UNCHANGED sessionVars
            ELSE /\ last' = [op |-> "OnSelect", ret |-> "nil"]
                 /\ commitLoad(content, newSourcePath(elem),
                               rendererForWidth(currentWidth))
                 /\ history' = pushOnLoad(TRUE)
                 /\ UNCHANGED currentWidth
         /\ UNCHANGED alwaysScrollToAnchor

\* ContentFetcher.OnSelect(viewer, elem): viewerNil, the viewer is nil;
\* fetchErr and content, what the provider returns; renderErr, the renderer
\* returns an error for the load
OnSelect(viewerNil, elem, fetchErr, content, renderErr) ==
    IF viewerNil THEN fetchFails("ErrNilViewer")
    ELSE IF elem.Type # NavElementURL THEN fetchFails("ErrNotLink")
    ELSE IF fetchErr THEN fetchFails("fetch content")
    ELSE IF content = "" THEN fetchFails("ErrEmptyContent")
    ELSE /\ wordWrap' = rendererForWidth(currentWidth)
         /\ IF renderErr
            THEN /\ last' = [op |-> "OnSelect", ret |-> "err"]
                 /\ UNCHANGED sessionVars
            ELSE /\ last' = [op |-> "OnSelect", ret |-> "nil"]
                 /\ commitLoad(content, newSourcePath(elem),
                               rendererForWidth(currentWidth))
                 /\ history' = pushOnLoad(TRUE)
                 /\ UNCHANGED currentWidth
         /\ UNCHANGED alwaysScrollToAnchor

\* a GoBack that saves the current page before it looks at the back stack
GoBackSavesFirst ==
    /\ IF ~CanGoBack(history)
       THEN /\ last' = [op |-> "GoBack", ret |-> FALSE]
            /\ history' = PushToForward(history, saveCurrentState)
            /\ UNCHANGED <<markdown, currentSourceFile, renderedLines, elements,
                           selectedIndex, scrollOffset, currentWidth>>
       ELSE /\ last' = [op |-> "GoBack", ret |-> TRUE]
            /\ history' = PushToForward(Back(history).h, saveCurrentState)
            /\ restoreState(Back(history).state)
    /\ UNCHANGED <<alwaysScrollToAnchor, wordWrap>>

GoBack ==
    /\ IF ~CanGoBack(history)
       THEN /\ last' = [op |-> "GoBack", ret |-> FALSE]
            /\ UNCHANGED sessionVars
       ELSE /\ last' = [op |-> "GoBack", ret |-> TRUE]
            /\ history' = PushToForward(Back(history).h, saveCurrentState)
            /\ restoreState(Back(history).state)
    /\ UNCHANGED <<alwaysScrollToAnchor, wordWrap>>

\* a GoForward that went forward also records the state it left
GoForward ==
    /\ IF ~CanGoForward(history)
       THEN /\ last' = [op |-> "GoForward", ret |-> FALSE]
            /\ UNCHANGED sessionVars
       ELSE /\ last' = [op |-> "GoForward", ret |-> TRUE, from |-> sessionVars]
            /\ history' = PushToBack(Forward(history).h, saveCurrentState)
            /\ restoreState(Forward(history).state)
    /\ UNCHANGED <<alwaysScrollToAnchor, wordWrap>>

\* a clearSelectionIfOffScreen that takes the top line of the viewport for
\* off-screen
clearSelectionIfOnTop(sel, scroll, viewportHeight) ==
    IF sel < 0 \/ sel >= Len(elements) THEN sel
    ELSE IF viewportHeight <= 0 THEN sel
    ELSE IF At(elements, sel).EndLine <= scroll THEN -1
    ELSE IF At(elements, sel).StartLine >= scroll + viewportHeight THEN -1
    ELSE sel

\* clearSelectionIfOffScreen: the selection it leaves
clearSelectionIfOffScreen(sel, scroll, viewportHeight) ==
    IF sel < 0 \/ sel >= Len(elements) THEN sel
    ELSE IF viewportHeight <= 0 THEN sel
    ELSE IF At(elements, sel).EndLine < scroll THEN -1
    ELSE IF At(elements, sel).StartLine >= scroll + viewportHeight THEN -1
    ELSE sel

MaxOffset(viewportHeight) == Max(Len(renderedLines) - viewportHeight, 0)

\* one ScrollUp / ScrollDown on nav = [sel, scroll]: [moved, sel, scroll]
scrollUpStep(nav, viewportHeight) ==
    IF nav.scroll > 0
    THEN [moved |-> TRUE,
          sel |-> clearSelectionIfOffScreen(nav.sel, nav.scroll - 1, viewportHeight),
          scroll |-> nav.scroll - 1]
    ELSE [moved |-> FALSE, sel |-> nav.sel, scroll |-> nav.scroll]

\* a ScrollDown that scrolls and says it did not
scrollDownStepSilent(nav, viewportHeight) ==
    IF nav.scroll < MaxOffset(viewportHeight)
    THEN [moved |-> FALSE,
          sel |-> clearSelectionIfOffScreen(nav.sel, nav.scroll + 1, viewportHeight),
          scroll |-> nav.scroll + 1]
    ELSE [moved |-> FALSE, sel |-> nav.sel, scroll |-> nav.scroll]

scrollDownStep(nav, viewportHeight) ==
    IF nav.scroll < MaxOffset(viewportHeight)
    THEN [moved |-> TRUE,
          sel |-> clearSelectionIfOffScreen(nav.sel, nav.scroll + 1, viewportHeight),
          scroll |-> nav.scroll + 1]
    ELSE [moved |-> FALSE, sel |-> nav.sel, scroll |-> nav.scroll]

\* the loops of PageUp / PageDown: i is the loop counter
RECURSIVE pageUpLoop(_, _, _, _)
pageUpLoop(nav, moved, i, viewportHeight) ==
    IF i >= viewportHeight THEN [moved |-> moved, sel |-> nav.sel, scroll |-> nav.scroll]
    ELSE LET r == scrollUpStep(nav, viewportHeight)
         IN  IF ~r.moved THEN [moved |-> moved, sel |-> nav.sel, scroll |-> nav.scroll]
             ELSE pageUpLoop(r, TRUE, i + 1, viewportHeight)

\* a PageDown that goes a whole viewport down wherever the page ends
pageDownWhole(nav, moved, i, viewportHeight) ==
    IF viewportHeight <= 0 THEN [moved |-> moved, sel |-> nav.sel, scroll |-> nav.scroll]
    ELSE [moved |-> TRUE,
          sel |-> clearSelectionIfOffScreen(nav.sel, nav.scroll + viewportHeight,
                                            viewportHeight),
          scroll |-> nav.scroll + viewportHeight]

RECURSIVE pageDownLoop(_, _, _, _)
pageDownLoop(nav, moved, i, viewportHeight) ==
    IF i >= viewportHeight THEN [moved |-> moved, sel |-> nav.sel, scroll |-> nav.scroll]
    ELSE LET r == scrollDownStep(nav, viewportHeight)
         IN  IF ~r.moved THEN [moved |-> moved, sel |-> nav.sel, scroll |-> nav.scroll]
             ELSE pageDownLoop(r, TRUE, i + 1, viewportHeight)

Nav == [sel |-> selectedIndex, scroll |-> scrollOffset]

\* a call that changes only the selection and the scroll offset
Navigate(op, r, ret) ==
    /\ selectedIndex' = r.sel
    /\ scrollOffset' = r.scroll
    /\ last' = [op |-> op, ret |-> ret]
    /\ UNCHANGED <<markdown, currentSourceFile, renderedLines, elements, history,
                   currentWidth, alwaysScrollToAnchor, wordWrap>>

ScrollUp(viewportHeight) ==
    LET r == scrollUpStep(Nav, viewportHeight)
    IN  Navigate("ScrollUp", r, r.moved)

ScrollDown(viewportHeight) ==
    LET r == scrollDownStep(Nav, viewportHeight)
    IN  Navigate("ScrollDown", r, r.moved)

PageUp(viewportHeight) ==
    LET r == pageUpLoop(Nav, FALSE, 0, viewportHeight)
    IN  Navigate("PageUp", r, r.moved)

PageDown(viewportHeight) ==
    LET r == pageDownLoop(Nav, FALSE, 0, viewportHeight)
    IN  Navigate("PageDown", r, r.moved)

Home(viewportHeight) ==
    Navigate("Home",
             [sel |-> clearSelectionIfOffScreen(selectedIndex, 0, viewportHeight),
              scroll |-> 0], "none")

End(viewportHeight) ==
    LET maxOffset == MaxOffset(viewportHeight)
    IN  Navigate("End",
                 [sel |-> clearSelectionIfOffScreen(selectedIndex, maxOffset, viewportHeight),
                  scroll |-> maxOffset], "none")

\* an ensureVisible that always puts the selected element on the top line
ensureVisibleOnTop(sel, scroll, viewportHeight) ==
    IF sel < 0 \/ sel >= Len(elements) THEN scroll
    ELSE IF viewportHeight <= 0 THEN scroll
    ELSE At(elements, sel).StartLine

\* ensureVisible: the scroll offset it leaves when sel is selected
ensureVisible(sel, scroll, viewportHeight) ==
    IF sel < 0 \/ sel >= Len(elements) THEN scroll
    ELSE IF viewportHeight <= 0 THEN scroll
    ELSE LET elem == At(elements, sel)
             s1 == IF elem.StartLine < scroll THEN elem.StartLine ELSE scroll
             s2 == IF elem.EndLine >= s1 + viewportHeight
                   THEN elem.EndLine - viewportHeight + 1 ELSE s1
         IN  IF s2 < 0 THEN 0 ELSE s2

\* a test that forgets to look at the element's type
IsPlacedElement(i) == At(elements, i).EndCol > At(elements, i).StartCol

IsValidLink(i) ==
    At(elements, i).Type = NavElementURL /\ At(elements, i).EndCol > At(elements, i).StartCol

\* selecting element i: the result of a traversal call that found i
Select(i, viewportHeight) ==
    [found |-> TRUE, sel |-> i, scroll |-> ensureVisible(i, scrollOffset, viewportHeight)]

NoMove == [found |-> FALSE, sel |-> selectedIndex, scroll |-> scrollOffset]

Lowest(S) == CHOOSE i \in S : \A j \in S : i <= j

Highest(S) == CHOOSE i \in S : \A j \in S : i >= j

\* a MoveToNextLink that, with nothing selected, takes the first link of the
\* document
moveToNextLinkAnywhere(viewportHeight) ==
    IF Len(elements) = 0 THEN NoMove
    ELSE LET c == {i \in (selectedIndex + 1)..(Len(elements) - 1) : IsValidLink(i)}
         IN  IF c = {} THEN NoMove ELSE Select(Lowest(c), viewportHeight)

moveToNextLink(viewportHeight) ==
    IF Len(elements) = 0 THEN NoMove
    ELSE IF selectedIndex >= 0
    THEN LET c == {i \in (selectedIndex + 1)..(Len(elements) - 1) : IsValidLink(i)}
         IN  IF c = {} THEN NoMove ELSE Select(Lowest(c), viewportHeight)
    ELSE LET c == {i \in 0..(Len(elements) - 1) :
                     /\ At(elements, i).Type = NavElementURL
                     /\ At(elements, i).StartLine >= scrollOffset
                     /\ At(elements, i).StartLine < scrollOffset + viewportHeight
                     /\ At(elements, i).EndCol > At(elements, i).StartCol}
         IN  IF c = {} THEN NoMove ELSE Select(Lowest(c), viewportHeight)

\* a MoveToPreviousLink that wraps around to the last link
moveToPreviousLinkWraps(viewportHeight) ==
    IF Len(elements) = 0 THEN NoMove
    ELSE IF selectedIndex >= 0
    THEN LET c == {i \in 0..(selectedIndex - 1) : i < Len(elements) /\ IsValidLink(i)}
             all == {i \in 0..(Len(elements) - 1) : IsValidLink(i)}
         IN  IF c # {} THEN Select(Highest(c), viewportHeight)
             ELSE IF all # {} THEN Select(Highest(all), viewportHeight)
             ELSE NoMove
    ELSE LET viewportBottom == scrollOffset + viewportHeight - 1
             c == {i \in 0..(Len(elements) - 1) :
                     /\ At(elements, i).Type = NavElementURL
                     /\ At(elements, i).StartLine >= scrollOffset
                     /\ At(elements, i).StartLine <= viewportBottom
                     /\ At(elements, i).EndCol > At(elements, i).StartCol}
         IN  IF c = {} THEN NoMove ELSE Select(Highest(c), viewportHeight)

moveToPreviousLink(viewportHeight) ==
    IF Len(elements) = 0 THEN NoMove
    ELSE IF selectedIndex >= 0
    THEN LET c == {i \in 0..(selectedIndex - 1) : i < Len(elements) /\ IsValidLink(i)}
         IN  IF c = {} THEN NoMove ELSE Select(Highest(c), viewportHeight)
    ELSE LET viewportBottom == scrollOffset + viewportHeight - 1
             c == {i \in 0..(Len(elements) - 1) :
                     /\ At(elements, i).Type = NavElementURL
                     /\ At(elements, i).StartLine >= scrollOffset
                     /\ At(elements, i).StartLine <= viewportBottom
                     /\ At(elements, i).EndCol > At(elements, i).StartCol}
         IN  IF c = {} THEN NoMove ELSE Select(Highest(c), viewportHeight)

\* a MoveToFirst that looks at the viewport only
moveToFirstVisible(viewportHeight) ==
    LET c == {i \in 0..(Len(elements) - 1) :
                /\ IsValidLink(i)
                /\ At(elements, i).StartLine >= scrollOffset
                /\ At(elements, i).StartLine < scrollOffset + viewportHeight}
    IN  IF c = {} THEN NoMove
        ELSE IF selectedIndex # Lowest(c) THEN Select(Lowest(c), viewportHeight)
        ELSE NoMove

moveToFirst(viewportHeight) ==
    LET c == {i \in 0..(Len(elements) - 1) : IsValidLink(i)}
    IN  IF c = {} THEN NoMove
        ELSE IF selectedIndex # Lowest(c) THEN Select(Lowest(c), viewportHeight)
        ELSE NoMove

moveToLast(viewportHeight) ==
    LET c == {i \in 0..(Len(elements) - 1) : IsValidLink(i)}
    IN  IF c = {} THEN NoMove
        ELSE IF selectedIndex # Highest(c) THEN Select(Highest(c), viewportHeight)
        ELSE NoMove

MoveToNextLink(viewportHeight) ==
    LET r == moveToNextLink(viewportHeight)
    IN  Navigate("MoveToNextLink", r, r.found)

MoveToPreviousLink(viewportHeight) ==
    LET r == moveToPreviousLink(viewportHeight)
    IN  Navigate("MoveToPreviousLink", r, r.found)

MoveToFirst(viewportHeight) ==
    LET r == moveToFirst(viewportHeight)
    IN  Navigate("MoveToFirst", r, r.found)

MoveToLast(viewportHeight) ==
    LET r == moveToLast(viewportHeight)
    IN  Navigate("MoveToLast", r, r.found)

\* Selected(): a copy of the selected element, <<>> for nil
Selected ==
    IF selectedIndex < 0 \/ selectedIndex >= Len(elements) THEN <<>>
    ELSE <<At(elements, selectedIndex)>>

Abs(n) == IF n < 0 THEN -n ELSE n

\* findElementNearLine: the first element at the least distance, <<>> for nil
findElementNearLine(lineIdx) ==
    IF Len(elements) = 0 THEN <<>>
    ELSE LET dist(i) == Abs(At(elements, i).StartLine - lineIdx)
             best == Lowest({i \in 0..(Len(elements) - 1) :
                               \A j \in 0..(Len(elements) - 1) : dist(i) <= dist(j)})
         IN  <<At(elements, best)>>

elementsMatch(e1, e2) ==
    IF e1.Type # e2.Type THEN FALSE
    ELSE IF e1.Type = NavElementHeader THEN e1.Slug = e2.Slug
    ELSE e1.URL = e2.URL /\ e1.Text = e2.Text

\* restoreScrollAndSelection on the re-correlated elements: [sel, scroll]
restoreScrollAndSelection(newElements, newLines, anchorElem, selectedElem) ==
    LET matches(e) == {i \in 0..(Len(newElements) - 1) : elementsMatch(At(newElements, i), e)}
        scroll1 == IF anchorElem # <<>> /\ matches(anchorElem[1]) # {}
                   THEN At(newElements, Lowest(matches(anchorElem[1]))).StartLine
                   ELSE scrollOffset
    IN  IF selectedElem # <<>> /\ selectedElem[1].Type = NavElementURL
              /\ matches(selectedElem[1]) # {}
        THEN [sel |-> Lowest(matches(selectedElem[1])), scroll |-> scroll1]
        ELSE [sel |-> -1,
              scroll |-> IF Len(newLines) > 0 /\ scroll1 >= Len(newLines)
                         THEN Len(newLines) - 1 ELSE scroll1]

SetWidth(colsArg, renderErr) ==
    LET cols == IF colsArg < 0 THEN 0 ELSE colsArg
        result(ret) == [op |-> "SetWidth", ret |-> ret]
    IN  /\ IF currentWidth = cols
           THEN /\ UNCHANGED <<sessionVars, wordWrap>>
                /\ last' = result(FALSE)
           ELSE IF markdown = ""
           THEN /\ currentWidth' = cols
                /\ UNCHANGED <<markdown, currentSourceFile, renderedLines, elements,
                               selectedIndex, scrollOffset, history, wordWrap>>
                /\ last' = result(FALSE)
           ELSE LET selectedElem == Selected
                    near == IF scrollOffset >= 0 /\ scrollOffset < Len(renderedLines)
                            THEN findElementNearLine(scrollOffset) ELSE <<>>
                    anchorElem == IF near # <<>> /\ near[1].EndCol <= near[1].StartCol
                                  THEN <<>> ELSE near
                    wrap == rendererForWidth(cols)
                    lines == Rendered(markdown, wrap)
                    newElements == Correlated(elements, markdown, wrap)
                    r == restoreScrollAndSelection(newElements, lines, anchorElem, selectedElem)
                IN  /\ wordWrap' = wrap
                    /\ IF renderErr
                       THEN /\ UNCHANGED sessionVars
                            /\ last' = result(FALSE)
                       ELSE /\ currentWidth' = cols
                            /\ renderedLines' = lines
                            /\ elements' = newElements
                            /\ selectedIndex' = r.sel
                            /\ scrollOffset' = r.scroll
                            /\ UNCHANGED <<markdown, currentSourceFile, history>>
                            /\ last' = result(TRUE)
        /\ UNCHANGED alwaysScrollToAnchor

\* FindHeaderBySlug: a copy of the first header with that slug, <<>> for nil
FindHeaderBySlug(slug) ==
    LET c == {i \in 0..(Len(elements) - 1) :
                At(elements, i).Type = NavElementHeader /\ At(elements, i).Slug = slug}
    IN  IF c = {} THEN <<>> ELSE <<At(elements, Lowest(c))>>

\* a ScrollToAnchor that saves the position before it looks where the header is
ScrollToAnchorPushFirst(slug, viewportHeight, pushToHistory) ==
    LET header == FindHeaderBySlug(slug)
        result(ret) == [op |-> "ScrollToAnchor", ret |-> ret]
    IN  /\ IF header = <<>>
           THEN /\ last' = result(FALSE)
                /\ UNCHANGED sessionVars
           ELSE /\ last' = result(TRUE)
                /\ history' = IF pushToHistory THEN Push(history, saveCurrentState)
                              ELSE history
                /\ scrollOffset' =
                      IF /\ ~alwaysScrollToAnchor
                         /\ header[1].StartLine >= scrollOffset
                         /\ header[1].StartLine < scrollOffset + viewportHeight
                      THEN scrollOffset
                      ELSE Min(header[1].StartLine, MaxOffset(viewportHeight))
                /\ UNCHANGED <<markdown, currentSourceFile, renderedLines, elements,
                               selectedIndex, currentWidth>>
        /\ UNCHANGED <<alwaysScrollToAnchor, wordWrap>>

\* a ScrollToAnchor that does not clamp
ScrollToAnchorUnclamped(slug, viewportHeight, pushToHistory) ==
    LET header == FindHeaderBySlug(slug)
        result(ret) == [op |-> "ScrollToAnchor", ret |-> ret]
    IN  /\ IF header = <<>>
           THEN /\ last' = result(FALSE)
                /\ UNCHANGED sessionVars
           ELSE IF ~alwaysScrollToAnchor
                     /\ header[1].StartLine >= scrollOffset
                     /\ header[1].StartLine < scrollOffset + viewportHeight
           THEN /\ last' = result(TRUE)
                /\ UNCHANGED sessionVars
           ELSE /\ last' = result(TRUE)
                /\ history' = IF pushToHistory THEN Push(history, saveCurrentState)
                              ELSE history
                /\ scrollOffset' = header[1].StartLine
                /\ UNCHANGED <<markdown, currentSourceFile, renderedLines, elements,
                               selectedIndex, currentWidth>>
        /\ UNCHANGED <<alwaysScrollToAnchor, wordWrap>>

ScrollToAnchor(slug, viewportHeight, pushToHistory) ==
    LET header == FindHeaderBySlug(slug)
        result(ret) == [op |-> "ScrollToAnchor", ret |-> ret]
    IN  /\ IF header = <<>>
           THEN /\ last' = result(FALSE)
                /\ UNCHANGED sessionVars
           ELSE IF ~alwaysScrollToAnchor
                     /\ header[1].StartLine >= scrollOffset
                     /\ header[1].StartLine < scrollOffset + viewportHeight
           THEN /\ last' = result(TRUE)
                /\ UNCHANGED sessionVars
           ELSE /\ last' = result(TRUE)
                /\ history' = IF pushToHistory THEN Push(history, saveCurrentState)
                              ELSE history
                /\ scrollOffset' = Min(header[1].StartLine, MaxOffset(viewportHeight))
                /\ UNCHANGED <<markdown, currentSourceFile, renderedLines, elements,
                               selectedIndex, currentWidth>>
        /\ UNCHANGED <<alwaysScrollToAnchor, wordWrap>>

\* the correlation the session's steps look up is the one the code computes
TabulationFaithful ==
    \A wrap \in WordWraps :
        Correlated(elements, markdown, wrap)
            = correlatePositions(elements, Render(markdown, wrap))

NextOver(sources, widths, heights, slugs, pushes) ==
    \/ \E content \in sources, push \in pushes, err \in BOOLEAN :
          SetMarkdownWithSource(content, PathOf(content), push, err)
    \/ \E cols \in widths, err \in BOOLEAN : SetWidth(cols, err)
    \/ GoBack
    \/ GoForward
    \/ \E h \in heights : ScrollUp(h)
    \/ \E h \in heights : ScrollDown(h)
    \/ \E h \in heights : PageUp(h)
    \/ \E h \in heights : PageDown(h)
    \/ \E h \in heights : Home(h)
    \/ \E h \in heights : End(h)
    \/ \E h \in heights : MoveToNextLink(h)
    \/ \E h \in heights : MoveToPreviousLink(h)
    \/ \E h \in heights : MoveToFirst(h)
    \/ \E h \in heights : MoveToLast(h)
    \/ \E slug \in slugs, h \in heights, push \in pushes :
          ScrollToAnchor(slug, h, push)

(***************************************************************************)
(* A host that shows one page at a time and never asks for a history       *)
(* entry: the longer documents, every width, every viewport height.        *)
(***************************************************************************)
Init == New(0)

Next == NextOver(Sources, Cols, ViewportHeights, Slugs, {FALSE})

Spec == Init /\ [][Next]_vars

(***************************************************************************)
(* A host that walks between two short pages, at one width and with a      *)
(* viewport of one line, with histories of 1..MaxHistory entries: the      *)
(* stacks grow deep enough to evict.  AlwaysScrollToAnchor is off.         *)
(***************************************************************************)
HistoryInit == \E hmax \in 1..MaxHistory : New(hmax) /\ ~alwaysScrollToAnchor

HistoryNext == NextOver(HistorySources, {0}, {1}, {<<"t", "o", "p">>}, BOOLEAN)

HistorySpec == HistoryInit /\ [][HistoryNext]_vars

(***************************************************************************)
(* The same two pages with a history of one entry, in a window whose width *)
(* changes between visits.                                                 *)
(***************************************************************************)
ResizeInit == New(1)

ResizeNext == NextOver(HistorySources, {0, 3}, {1}, {<<"t", "o", "p">>}, BOOLEAN)

ResizeSpec == ResizeInit /\ [][ResizeNext]_vars

(***************************************************************************)
(* The parser on documents of up to MaxHeadings headings whose texts share *)
(* base slugs, one of them the text that a numbered slug spells.           *)
(***************************************************************************)
MaxHeadings == 4

HeadingTexts ==
    { <<"T", "o", "p">>, <<"t", "o", "p", "!">>, <<"T", "o", "p", "-", "1">>, <<"n", "o">> }

HeadingBlocks ==
    UNION { [1..n -> {Heading(1, text) : text \in HeadingTexts}] : n \in 0..MaxHeadings }

\* no session: the functions below are called on their own
NoSession ==
    /\ markdown = ""
    /\ currentSourceFile = ""
    /\ renderedLines = <<>>
    /\ elements = <<>>
    /\ selectedIndex = -1
    /\ scrollOffset = 0
    /\ currentWidth = 0
    /\ alwaysScrollToAnchor = FALSE
    /\ wordWrap = 0
    /\ history = NewNavigationHistory(DefaultHistoryMax)

ParseInit ==
    /\ NoSession
    /\ \E blocks \in HeadingBlocks : last = [op |-> "source", blocks |-> blocks]

\* v.elements = v.parseMarkdownWithSource(source, sourceFilePath)
ParseNext ==
    /\ last.op = "source"
    /\ last' = [last EXCEPT !.op = "parseMarkdownWithSource"]
    /\ elements' = parseBlocks(last.blocks, 1, "")
    /\ UNCHANGED <<markdown, currentSourceFile, renderedLines, selectedIndex,
                   scrollOffset, history, currentWidth, alwaysScrollToAnchor, wordWrap>>

ParseSpec == ParseInit /\ [][ParseNext]_vars

(***************************************************************************)
(* The codec of the heading level: every level from -1 to MaxRun encoded   *)
(* and decoded again, and the decoder on runs of up to MaxRun word joiners *)
(* between two joiners and on every string of up to MaxMarker runes.       *)
(***************************************************************************)
MaxRun == 8

MaxMarker == 4

MarkerInputs ==
    {<<zwj>> \o Repeat(wj, n) \o <<zwj>> : n \in 0..MaxRun}
        \cup UNION {[1..n -> {zwj, wj, "a"}] : n \in 0..MaxMarker}

CodecInit ==
    /\ NoSession
    /\ \/ \E level \in -1..MaxRun :
             last = [op |-> "level", level |-> level, marker |-> <<>>,
                     ret |-> [panic |-> FALSE, level |-> 0]]
       \/ \E marker \in MarkerInputs :
             last = [op |-> "marker", level |-> 0, marker |-> marker,
                     ret |-> [panic |-> FALSE, level |-> 0]]

Encode ==
    /\ last.op = "level"
    /\ last' = [last EXCEPT !.op = "HeaderStartMarker",
                            !.marker = HeaderStartMarker(last.level)]
    /\ UNCHANGED <<pageVars, history>>

Decode ==
    /\ last.op \in {"marker", "HeaderStartMarker"}
    /\ last' = [last EXCEPT !.op = IF last.op = "marker" THEN "DecodeHeaderLevel"
                                   ELSE "DecodeHeaderLevel(HeaderStartMarker)",
                            !.ret = DecodeHeaderLevel(last.marker)]
    /\ UNCHANGED <<pageVars, history>>

CodecNext == Encode \/ Decode

CodecSpec == CodecInit /\ [][CodecNext]_vars

(***************************************************************************)
(* The marker extractor on two copies of every line of up to MaxTokens     *)
(* pieces: a marker, a letter or an SGR sequence each, in any order.       *)
(***************************************************************************)
MaxTokens == 5

Tokens == {"S", "E", "H", "F", "a", "b", "m"}

\* the runes of a piece
Piece(token) ==
    CASE token = "S" -> LinkStartMarker
      [] token = "E" -> LinkEndMarker
      [] token = "G" -> HeaderStartMarker(1)
      [] token = "H" -> HeaderStartMarker(2)
      [] token = "F" -> HeaderEndMarker
      [] token = "m" -> SGRBold
      [] OTHER -> <<token>>

RECURSIVE LineOf(_)
LineOf(tokens) ==
    IF tokens = <<>> THEN <<>> ELSE Piece(Head(tokens)) \o LineOf(Tail(tokens))

ExtractInit ==
    /\ NoSession
    /\ \E tokens \in UNION {[1..n -> Tokens] : n \in 0..MaxTokens} :
          last = [op |-> "lines", tokens |-> tokens,
                  lines |-> <<LineOf(tokens), LineOf(tokens)>>, ret |-> <<>>]

ExtractNext ==
    /\ last.op = "lines"
    /\ last' = [last EXCEPT !.op = "ExtractAllMarkers",
                            !.ret = ExtractAllMarkers(last.lines)]
    /\ UNCHANGED <<pageVars, history>>

ExtractSpec == ExtractInit /\ [][ExtractNext]_vars

(***************************************************************************)
(* The marker correlator over passes: Reset at the load of a document of   *)
(* up to MaxDocLines lines, then up to MaxCalls calls of CorrelatePosition *)
(* on the lines of that document, with links and headings in any order.    *)
(***************************************************************************)
MaxDocLines == 2

MaxCalls == 3

\* lines as pieces: two links of one text, a heading, a heading and a link,
\* no marker, a link in a heading, two links without text
DocLines ==
    { <<"S", "a", "E", "b", "S", "a", "E">>,
      <<"H", "a", "F">>,
      <<"G", "a", "F", "S", "b", "E">>,
      <<"a", " ", "b">>,
      <<"H", "S", "a", "E", "F">>,
      <<"S", "E", "S", "E">> }

Documents ==
    UNION { [1..n -> {LineOf(tokens) : tokens \in DocLines}] : n \in 0..MaxDocLines }

CallElements ==
    { [Type |-> NavElementURL, Text |-> <<"a">>, Level |-> 0],
      [Type |-> NavElementURL, Text |-> <<"b">>, Level |-> 0],
      [Type |-> NavElementHeader, Text |-> <<"a">>, Level |-> 1],
      [Type |-> NavElementHeader, Text |-> <<"b">>, Level |-> 2] }

CorrelatorInit ==
    /\ NoSession
    /\ \E lines \in Documents :
          last = [op |-> "NewMarkerCorrelator", lines |-> lines,
                  mc |-> MarkerCorrelator, pass |-> <<>>]

\* mc.Reset() at the load of the next document, the last one with another
\* last line: of two lines or more, the key of the cache, the count of the
\* lines and the first line, does not tell the two apart
CorrelatorReset ==
    /\ last.op = "CorrelatePosition"
    /\ \E tokens \in DocLines :
          last' = [op |-> "Reset",
                   lines |-> IF last.lines = <<>> THEN <<>>
                             ELSE [last.lines EXCEPT ![Len(last.lines)] = LineOf(tokens)],
                   mc |-> Reset(last.mc), pass |-> <<>>]
    /\ UNCHANGED <<pageVars, history>>

\* mc.CorrelatePosition(elem, lines, cleaner); pass keeps each call of the
\* pass with its answer and the correlator it left
Correlate ==
    /\ Len(last.pass) < MaxCalls
    /\ \E elem \in CallElements :
          LET r == CorrelatePositionCached(last.mc, elem, last.lines)
          IN  last' = [last EXCEPT !.op = "CorrelatePosition",
                                   !.mc = r.mc,
                                   !.pass = Append(@, [elem |-> elem, res |-> r.res,
                                                       mc |-> r.mc])]
    /\ UNCHANGED <<pageVars, history>>

CorrelatorNext == CorrelatorReset \/ Correlate

CorrelatorSpec == CorrelatorInit /\ [][CorrelatorNext]_vars

(***************************************************************************)
(* Path resolver.  A path is the list of its segments, the pieces between  *)
(* the separators, and abs, whether it begins with a separator: "a/../x"   *)
(* is [abs |-> FALSE, segs |-> <<"a", "..", "x">>], "/" is abs with no     *)
(* segment, "a/" ends with the empty segment.                              *)
(***************************************************************************)
RelPath(segs) == [abs |-> FALSE, segs |-> segs]

AbsPath(segs) == [abs |-> TRUE, segs |-> segs]

\* filepath.Clean on the segments: "" and "." go, ".." takes the segment
\* before it, stays at the head of a relative path and goes at the root
RECURSIVE cleanSegs(_, _, _)
cleanSegs(abs, out, rest) ==
    IF rest = <<>> THEN out
    ELSE LET seg == Head(rest)
         IN  IF seg \in {"", "."} THEN cleanSegs(abs, out, Tail(rest))
             ELSE IF seg # ".." THEN cleanSegs(abs, Append(out, seg), Tail(rest))
             ELSE IF out # <<>> /\ out[Len(out)] # ".."
                  THEN cleanSegs(abs, SubSeq(out, 1, Len(out) - 1), Tail(rest))
             ELSE IF abs THEN cleanSegs(abs, out, Tail(rest))
             ELSE cleanSegs(abs, Append(out, ".."), Tail(rest))

\* filepath.Clean: the empty relative path is "."
Clean(path) ==
    LET out == cleanSegs(path.abs, <<>>, path.segs)
    IN  IF ~path.abs /\ out = <<>> THEN RelPath(<<".">>) ELSE [abs |-> path.abs, segs |-> out]

\* strings.Split(path, "/"): an absolute path has the empty part first
Split(path) ==
    IF ~path.abs THEN path.segs
    ELSE IF path.segs = <<>> THEN <<"", "">>
    ELSE <<"">> \o path.segs

\* filepath.Join(dir, path)
Join(dir, path) == Clean([abs |-> dir.abs, segs |-> dir.segs \o path.segs])

\* isHTTPURL on a path: it begins with http:// or https://
isHTTPPath(path) ==
    ~path.abs /\ Len(path.segs) >= 3 /\ path.segs[1] \in {"http:", "https:"}
        /\ path.segs[2] = ""

\* the count of the ".." at the head of parts
RECURSIVE escapeCount(_)
escapeCount(parts) ==
    IF parts # <<>> /\ Head(parts) = ".." THEN 1 + escapeCount(Tail(parts)) ELSE 0

containsDirectoryTraversal(path) ==
    LET parts == Split(Clean(path))
    IN  \/ path.abs /\ Len(parts) > 1 /\ At(parts, 1) \in {"etc", "sys", "proc", "root"}
        \/ /\ ~path.abs /\ path.segs # <<>> /\ path.segs[1] = ".."
           /\ \/ escapeCount(parts) > 1
              \/ \E i \in 1..Len(parts) :
                    parts[i] \in {"etc", "var", "usr", "sys", "proc", "root"}
        \/ /\ ~path.abs
           /\ \E i \in 1..(Len(path.segs) - 1) :
                 path.segs[i] \in {"etc", "var", "usr", "sys", "proc", "root"}

NoPath == RelPath(<<>>)

\* ResolveMarkdownPath(linkURL, sourceFilePath, searchRoots): sourceDir is the
\* directory of sourceFilePath, NoPath for none; exists, the files the
\* resolver looks for exist
ResolveMarkdownPath(linkURL, sourceDir, searchRoots, exists) ==
    IF linkURL.segs = <<>> /\ ~linkURL.abs THEN [path |-> NoPath, err |-> "nil"]
    ELSE IF isHTTPPath(linkURL) THEN [path |-> linkURL, err |-> "nil"]
    ELSE IF containsDirectoryTraversal(linkURL)
    THEN [path |-> NoPath, err |-> "ErrDirectoryTraversal"]
    ELSE IF linkURL.abs
    THEN (IF exists THEN [path |-> linkURL, err |-> "nil"]
          ELSE [path |-> NoPath, err |-> "ErrFileNotFound"])
    ELSE IF sourceDir # NoPath /\ exists
    THEN [path |-> Join(sourceDir, linkURL), err |-> "nil"]
    ELSE IF searchRoots # <<>> /\ exists
    THEN [path |-> Join(searchRoots[1], linkURL), err |-> "nil"]
    ELSE [path |-> NoPath, err |-> "ErrFileNotFound"]

(***************************************************************************)
(* correlatePositions on the elements of a load, fresh from the parser,    *)
(* with a correlator that reports what it is told to, for every list of    *)
(* MaxElements reports.                                                    *)
(***************************************************************************)
MaxElements == 3

MaxSpan == 2

Reports ==
    {NotFound} \cup
    {[found |-> TRUE, lineIdx |-> lineIdx, startCol |-> startCol, endCol |-> startCol + span] :
        lineIdx \in 0..1, startCol \in 0..1, span \in 0..MaxSpan}

\* an element as parseMarkdownWithSource leaves it
FreshElement ==
    [Type |-> "URL", Level |-> 0, Text |-> <<"a">>, URL |-> Page1, Slug |-> <<>>,
     SourceFilePath |-> "", StartLine |-> 0, EndLine |-> 0, StartCol |-> 0,
     EndCol |-> 0]

TieInit ==
    /\ NoSession
    /\ \E n \in 1..MaxElements : \E correlations \in [1..n -> Reports] :
          last = [op |-> "reports", correlations |-> correlations, ret |-> <<>>]

TieNext ==
    /\ last.op = "reports"
    /\ last' = [last EXCEPT
                  !.op = "correlatePositions",
                  !.ret = applyCorrelations([i \in 1..Len(last.correlations) |-> FreshElement],
                                            last.correlations)]
    /\ UNCHANGED <<pageVars, history>>

TieSpec == TieInit /\ [][TieNext]_vars

(***************************************************************************)
(* The scoring correlator on every document of one line or two of up to    *)
(* MaxLineRunes runes, for a link and a heading with the text a.           *)
(***************************************************************************)
MaxLineRunes == 3

ScoreLines == UNION {[1..n -> {"a", "b", " "}] : n \in 0..MaxLineRunes}

ScoreElements ==
    {[Type |-> NavElementURL, Level |-> 0, Text |-> <<"a">>],
     [Type |-> NavElementHeader, Level |-> 2, Text |-> <<"a">>]}

ScoringInit ==
    /\ NoSession
    /\ \E lines \in {<<first>> : first \in ScoreLines}
                      \cup {<<first, second>> : first, second \in ScoreLines} :
          \E elem \in ScoreElements :
              last = [op |-> "lines", lines |-> lines, elem |-> elem, ret |-> NotFound]

ScoringNext ==
    /\ last.op = "lines"
    /\ last' = [last EXCEPT !.op = "ScoringCorrelatePosition",
                            !.ret = ScoringCorrelatePosition(last.elem, last.lines)]
    /\ UNCHANGED <<pageVars, history>>

ScoringSpec == ScoringInit /\ [][ScoringNext]_vars

(***************************************************************************)
(* The lines of the viewport.                                              *)
(***************************************************************************)
\* every line from the scroll offset on, whatever the height
visibleLinesToEnd(lines, offset, viewportHeight) ==
    IF viewportHeight <= 0 \/ Len(lines) = 0 THEN <<>>
    ELSE IF Max(offset, 0) >= Len(lines) THEN <<>>
    ELSE Slice(lines, Max(offset, 0), Len(lines))

\* the lines VisibleLines returns for a scroll offset, none for nil
visibleLines(lines, offset, viewportHeight) ==
    IF viewportHeight <= 0 \/ Len(lines) = 0 THEN <<>>
    ELSE IF Max(offset, 0) >= Len(lines) THEN <<>>
    ELSE Slice(lines, Max(offset, 0), Min(Max(offset, 0) + viewportHeight, Len(lines)))

VisibleLines(viewportHeight) ==
    /\ last' = [op |-> "VisibleLines", viewportHeight |-> viewportHeight,
                ret |-> visibleLines(renderedLines, scrollOffset, viewportHeight)]
    /\ scrollOffset' =
          IF viewportHeight > 0 /\ Len(renderedLines) # 0 /\ scrollOffset < 0
          THEN 0 ELSE scrollOffset
    /\ UNCHANGED <<markdown, currentSourceFile, renderedLines, elements,
                   selectedIndex, history, currentWidth, alwaysScrollToAnchor,
                   wordWrap>>

(***************************************************************************)
(* A caller inside the package that loads pages, writes the scrollOffset   *)
(* field, past either end of the lines too, and asks for the viewport.     *)
(***************************************************************************)
MaxOverScroll == 2

\* v.scrollOffset = offset
writeScrollOffset(offset) ==
    /\ scrollOffset' = offset
    /\ last' = [op |-> "scrollOffset", ret |-> "nil"]
    /\ UNCHANGED <<markdown, currentSourceFile, renderedLines, elements,
                   selectedIndex, history, currentWidth, alwaysScrollToAnchor,
                   wordWrap>>

VisibleNext ==
    \/ \E content \in Sources :
          SetMarkdownWithSource(content, PathOf(content), FALSE, FALSE)
    \/ \E offset \in (0 - MaxOverScroll)..(Len(renderedLines) + MaxOverScroll) :
          writeScrollOffset(offset)
    \/ \E h \in (0 - 1)..(MaxViewport + 2) : VisibleLines(h)

VisibleSpec == Init /\ [][VisibleNext]_vars

(***************************************************************************)
(* The path resolver on every link URL of up to MaxSegments segments.      *)
(***************************************************************************)
MaxSegments == 4

Segments == {"..", ".", "", "a", "etc", "var", "http:"}

\* the URLs: a relative path does not begin with the empty segment
LinkURLs ==
    LET lists == UNION {[1..n -> Segments] : n \in 0..MaxSegments}
    IN  {AbsPath(segs) : segs \in lists}
            \cup {RelPath(segs) : segs \in {l \in lists : l = <<>> \/ l[1] # ""}}

ResolveInit ==
    /\ NoSession
    /\ \E linkURL \in LinkURLs :
          last = [op |-> "linkURL", linkURL |-> linkURL,
                  ret |-> [path |-> NoPath, err |-> "nil"]]

ResolveNext ==
    /\ last.op = "linkURL"
    /\ \E sourceDir \in {NoPath, AbsPath(<<"d">>)}, exists \in BOOLEAN :
          last' = [last EXCEPT
                     !.op = "ResolveMarkdownPath",
                     !.ret = ResolveMarkdownPath(last.linkURL, sourceDir,
                                                 << AbsPath(<<"r">>) >>, exists)]
    /\ UNCHANGED <<pageVars, history>>

ResolveSpec == ResolveInit /\ [][ResolveNext]_vars

(***************************************************************************)
(* A host that follows links through the content fetcher: it loads a page, *)
(* activates one of its elements or a link to the web, and goes back.      *)
(***************************************************************************)
\* the elements a host activates: those of the page, and a link to the web
Activated ==
    {elements[i] : i \in 1..Len(elements)}
        \cup {[Type |-> NavElementURL, Level |-> 0, StartCol |-> 0, EndCol |-> 0,
               Text |-> <<"h">>, URL |-> HTTPURL, Slug |-> <<>>,
               SourceFilePath |-> currentSourceFile, StartLine |-> 0, EndLine |-> 0]}

\* what the provider returns as content
Fetched == {"", Page4}

FetchInit == \E hmax \in 1..MaxHistory : New(hmax)

FetchLoad ==
    \E err \in BOOLEAN : SetMarkdownWithSource(Page3, PathOf(Page3), FALSE, err)

\* the calls of OnSelect: with a viewer, every answer of the provider and of
\* the renderer; without one, neither is asked
Calls ==
    [viewerNil : {FALSE}, elem : Activated, fetchErr : BOOLEAN, content : Fetched,
     renderErr : BOOLEAN]
        \cup [viewerNil : {TRUE}, elem : Activated, fetchErr : {FALSE}, content : {Page4},
              renderErr : {FALSE}]

FetchSelect ==
    \E call \in Calls :
        OnSelect(call.viewerNil, call.elem, call.fetchErr, call.content, call.renderErr)

FetchNext ==
    \/ FetchLoad
    \/ FetchSelect
    \/ GoBack

FetchSpec == FetchInit /\ [][FetchNext]_vars

(***************************************************************************)
(* A host that shows one page of two links with the same text and the same *)
(* destination, in a window whose width changes.                           *)
(***************************************************************************)
DuplicateNext == NextOver({Page6}, {0, 3}, ViewportHeights, Slugs, {FALSE})

DuplicateSpec == Init /\ [][DuplicateNext]_vars

(***************************************************************************)
(* A host that follows anchors on the two short pages, in viewports of     *)
(* every height, saving its position or not.                               *)
(***************************************************************************)
AnchorNext == NextOver(HistorySources, {0}, ViewportHeights, Slugs, BOOLEAN)

AnchorSpec == ResizeInit /\ [][AnchorNext]_vars

(***************************************************************************)
(* A host that shows one page of three links around a heading, two of them *)
(* too long for the narrow window: at that width the first takes the place *)
(* of the last and the second is not placed at all.                        *)
(***************************************************************************)
TraversalNext == NextOver({Page5}, {0, 3}, ViewportHeights, Slugs, {FALSE})

TraversalSpec == Init /\ [][TraversalNext]_vars

(***************************************************************************)
(* A NavigationHistory of integers on its own (history.go), pushed and     *)
(* popped by a caller: the k-th push pushes k.  last carries, next to the  *)
(* call, the two stacks as they would be without a maximum, and for each   *)
(* stack the number of pushes since its last pop.                          *)
(***************************************************************************)
MaxPushes == 4

StackInit ==
    /\ markdown = ""
    /\ currentSourceFile = ""
    /\ renderedLines = <<>>
    /\ elements = <<>>
    /\ selectedIndex = -1
    /\ scrollOffset = 0
    /\ currentWidth = 0
    /\ alwaysScrollToAnchor = FALSE
    /\ wordWrap = 0
    /\ \E maxSize \in 1..MaxHistory : history = NewNavigationHistory(maxSize)
    /\ last = [op |-> "NewNavigationHistory", ok |-> TRUE, got |-> 0, want |-> 0,
               pushes |-> 0, back |-> <<>>, forward |-> <<>>,
               backRun |-> 0, forwardRun |-> 0]

StackPush ==
    /\ last.pushes < MaxPushes
    /\ history' = Push(history, last.pushes + 1)
    /\ last' = [last EXCEPT !.op = "Push", !.ok = TRUE,
                            !.pushes = @ + 1,
                            !.back = Append(@, last.pushes + 1),
                            !.forward = <<>>,
                            !.backRun = @ + 1,
                            !.forwardRun = 0]
    /\ UNCHANGED pageVars

StackPushToBack ==
    /\ last.pushes < MaxPushes
    /\ history' = PushToBack(history, last.pushes + 1)
    /\ last' = [last EXCEPT !.op = "PushToBack", !.ok = TRUE,
                            !.pushes = @ + 1,
                            !.back = Append(@, last.pushes + 1),
                            !.backRun = @ + 1]
    /\ UNCHANGED pageVars

StackPushToForward ==
    /\ last.pushes < MaxPushes
    /\ history' = PushToForward(history, last.pushes + 1)
    /\ last' = [last EXCEPT !.op = "PushToForward", !.ok = TRUE,
                            !.pushes = @ + 1,
                            !.forward = Append(@, last.pushes + 1),
                            !.forwardRun = @ + 1]
    /\ UNCHANGED pageVars

StackBack ==
    /\ history' = Back(history).h
    /\ last' = IF Back(history).ok
               THEN [last EXCEPT !.op = "Back", !.ok = TRUE,
                                 !.got = Back(history).state,
                                 !.want = last.back[Len(last.back)],
                                 !.back = SubSeq(@, 1, Len(@) - 1),
                                 !.backRun = 0]
               ELSE [last EXCEPT !.op = "Back", !.ok = FALSE]
    /\ UNCHANGED pageVars

StackForward ==
    /\ history' = Forward(history).h
    /\ last' = IF Forward(history).ok
               THEN [last EXCEPT !.op = "Forward", !.ok = TRUE,
                                 !.got = Forward(history).state,
                                 !.want = last.forward[Len(last.forward)],
                                 !.forward = SubSeq(@, 1, Len(@) - 1),
                                 !.forwardRun = 0]
               ELSE [last EXCEPT !.op = "Forward", !.ok = FALSE]
    /\ UNCHANGED pageVars

StackNext ==
    \/ StackPush
    \/ StackPushToBack
    \/ StackPushToForward
    \/ StackBack
    \/ StackForward

StackSpec == StackInit /\ [][StackNext]_vars

(***************************************************************************)
(* Properties of the session and of its history                            *)
(***************************************************************************)
\* the page as a caller sees it before a call
Snapshot ==
    [Markdown       |-> markdown,
     SourceFilePath |-> currentSourceFile,
     SelectedIndex  |-> selectedIndex,
     ScrollOffset   |-> scrollOffset,
     Elements       |-> elements,
     RenderedLines  |-> renderedLines,
     Width          |-> currentWidth]

Top(stack) == stack[Len(stack)]

Pop(stack) == SubSeq(stack, 1, Len(stack) - 1)

IsPrefix(a, b) == Len(a) <= Len(b) /\ SubSeq(b, 1, Len(a)) = a

IsSuffix(a, b) == Len(a) <= Len(b) /\ SubSeq(b, Len(b) - Len(a) + 1, Len(b)) = a

\* the session becomes the page a snapshot holds
Shows(state) ==
    /\ markdown' = state.Markdown
    /\ currentSourceFile' = state.SourceFilePath
    /\ elements' = state.Elements
    /\ renderedLines' = state.RenderedLines
    /\ scrollOffset' = state.ScrollOffset
    /\ currentWidth' = state.Width

\* a load whose render fails / succeeds
FailedLoad(push) ==
    \E content \in AllSources : SetMarkdownWithSource(content, PathOf(content), push, TRUE)

Load(content, push) == SetMarkdownWithSource(content, PathOf(content), push, FALSE)

\* C1: a load whose render fails returns the error and leaves markdown,
\* sourcePath, renderedLines, elements, selectedIndex, scrollOffset, currentWidth
\* and both history stacks as they were, also when pushHistory is true
AtomicLoad ==
    [][last'.op = "SetMarkdownWithSource" =>
          \A push \in BOOLEAN :
              FailedLoad(push) => /\ last'.ret = "err"
                                  /\ UNCHANGED sessionVars]_vars

\* a failed load with push on a loaded page that has history on both stacks
AtomicLoadWitness ==
    /\ last.op = "SetMarkdownWithSource"
    /\ last.ret = "err"
    /\ markdown # ""
    /\ history.backStack # <<>>
    /\ history.forwardStack # <<>>

\* C2: after a load whose render succeeds the markdown and the source path are
\* the arguments, the lines are the renderer's lines for that markdown, nothing
\* is selected and the scroll offset is 0
SuccessfulLoad ==
    [][\A content \in AllSources, push \in BOOLEAN :
          Load(content, push) => /\ last'.ret = "nil"
                                 /\ markdown' = content
                                 /\ currentSourceFile' = PathOf(content)
                                 /\ renderedLines' = Render(content, wordWrap')
                                 /\ selectedIndex' = -1
                                 /\ scrollOffset' = 0]_vars

\* a wrapped page has just been loaded
SuccessfulLoadWitness ==
    /\ last.op = "SetMarkdownWithSource"
    /\ last.ret = "nil"
    /\ markdown = Page2
    /\ currentWidth = 3
    /\ Len(renderedLines) > 2

\* C3: a successful load with push on a loaded session puts a snapshot of the
\* page it leaves on top of the back stack, above the entries that were there,
\* and empties the forward stack; without push, or on an empty session, both
\* stacks stay as they are
HistoryPushOnLoad ==
    [][\A content \in AllSources, push \in BOOLEAN :
          (last'.op = "SetMarkdownWithSource" /\ Load(content, push)) =>
              IF push /\ markdown # ""
              THEN /\ history'.backStack # <<>>
                   /\ Top(history'.backStack) = Snapshot
                   /\ IsSuffix(Pop(history'.backStack), history.backStack)
                   /\ history'.forwardStack = <<>>
              ELSE /\ history'.backStack = history.backStack
                   /\ history'.forwardStack = history.forwardStack]_vars

\* a load has pushed a second entry
HistoryPushOnLoadWitness ==
    /\ last.op = "SetMarkdownWithSource"
    /\ last.ret = "nil"
    /\ Len(history.backStack) = 2
    /\ history.forwardStack = <<>>
    /\ Top(history.backStack).Markdown # markdown

\* C4: GoBack with an empty back stack and GoForward with an empty forward
\* stack return false and leave the session and both stacks as they were
UnavailableNavigation ==
    [][/\ (GoBack /\ history.backStack = <<>>) =>
              (last'.ret = FALSE /\ UNCHANGED sessionVars)
       /\ (GoForward /\ history.forwardStack = <<>>) =>
              (last'.ret = FALSE /\ UNCHANGED sessionVars)]_vars

\* a GoBack has failed at the oldest page
UnavailableNavigationWitness ==
    /\ last.op = "GoBack"
    /\ last.ret = FALSE
    /\ history.backStack = <<>>
    /\ history.forwardStack # <<>>

\* C5: GoBack with a non-empty back stack returns true, removes the top of the
\* back stack, puts a snapshot of the page it leaves on top of the forward
\* stack and shows the page of the entry it removed; GoForward is the mirror
HistoryNavigation ==
    [][/\ (GoBack /\ history.backStack # <<>>) =>
              /\ last'.ret = TRUE
              /\ history'.backStack = Pop(history.backStack)
              /\ history'.forwardStack = Append(history.forwardStack, Snapshot)
              /\ Shows(Top(history.backStack))
       /\ (GoForward /\ history.forwardStack # <<>>) =>
              /\ last'.ret = TRUE
              /\ history'.forwardStack = Pop(history.forwardStack)
              /\ history'.backStack = Append(history.backStack, Snapshot)
              /\ Shows(Top(history.forwardStack))]_vars

\* a GoBack has gone back with a page still behind it
HistoryNavigationWitness ==
    /\ last.op = "GoBack"
    /\ last.ret = TRUE
    /\ history.backStack # <<>>
    /\ Top(history.forwardStack).Markdown # markdown

\* C6: a GoBack right after a GoForward that went forward leaves markdown,
\* sourcePath, elements, renderedLines, selectedIndex, scrollOffset,
\* currentWidth and both stacks as they were before the GoForward, for every
\* history maximum
BackAfterForward ==
    [][(last.op = "GoForward" /\ last.ret = TRUE /\ GoBack) =>
           sessionVars' = last.from]_vars

\* a GoForward has left a page on which a link was selected
BackAfterForwardWitness ==
    /\ last.op = "GoForward"
    /\ last.ret = TRUE
    /\ last.from[5] >= 0
    /\ last.from[7].maxSize = 1

\* the calls that ask for no history entry
PushesNothing ==
    \/ /\ last'.op = "SetMarkdownWithSource"
       /\ \E content \in AllSources, err \in BOOLEAN :
             SetMarkdownWithSource(content, PathOf(content), FALSE, err)
    \/ /\ last'.op = "ScrollToAnchor"
       /\ \E slug \in Slugs, h \in ViewportHeights : ScrollToAnchor(slug, h, FALSE)
    \/ last'.op \in {"SetWidth", "ScrollUp", "ScrollDown", "PageUp", "PageDown", "Home",
                     "End", "MoveToNextLink", "MoveToPreviousLink", "MoveToFirst",
                     "MoveToLast"}

\* C7: a snapshot held in history stays as it was pushed: scrolling, link
\* traversal, SetWidth, loads and anchor jumps without push leave every entry of
\* both stacks as it is, every entry a call adds is the page as it was before
\* that call, and GoBack restores the top entry exactly, with its selection and
\* its rendering width
SnapshotIsolation ==
    [][/\ PushesNothing => history' = history
       /\ \A i \in 1..Len(history'.backStack) :
             \/ history'.backStack[i] = Snapshot
             \/ \E j \in 1..Len(history.backStack) :
                   history'.backStack[i] = history.backStack[j]
       /\ \A i \in 1..Len(history'.forwardStack) :
             \/ history'.forwardStack[i] = Snapshot
             \/ \E j \in 1..Len(history.forwardStack) :
                   history'.forwardStack[i] = history.forwardStack[j]
       /\ (GoBack /\ history.backStack # <<>>) =>
              /\ Shows(Top(history.backStack))
              /\ selectedIndex' = Top(history.backStack).SelectedIndex]_vars

\* a GoBack has brought back a page with its selected link and its width, from
\* a page that was shown at another width
SnapshotIsolationWitness ==
    /\ last.op = "GoBack"
    /\ last.ret = TRUE
    /\ selectedIndex >= 0
    /\ currentWidth # Top(history.forwardStack).Width

\* the calls that push a history entry: a successful load with push on a loaded
\* session, and a ScrollToAnchor with push that scrolls
PushesHistory ==
    \/ /\ last'.op = "SetMarkdownWithSource"
       /\ markdown # ""
       /\ \E content \in AllSources : Load(content, TRUE)
    \/ /\ last'.op = "ScrollToAnchor"
       /\ \E slug \in Slugs, h \in ViewportHeights :
             /\ ScrollToAnchor(slug, h, TRUE)
             /\ FindHeaderBySlug(slug) # <<>>
             /\ \/ alwaysScrollToAnchor
                \/ FindHeaderBySlug(slug)[1].StartLine < scrollOffset
                \/ FindHeaderBySlug(slug)[1].StartLine >= scrollOffset + h

\* C9: only a load with push clears the forward stack: every other call leaves
\* the entries on the forward stack in place, and GoForward removes only the top
ForwardClearedOnlyByLoad ==
    [][\/ IsPrefix(history.forwardStack, history'.forwardStack)
       \/ GoForward /\ history'.forwardStack = Pop(history.forwardStack)
       \/ \E content \in AllSources : Load(content, TRUE)]_vars

\* C9, amended: only a history push clears the forward stack, and both a
\* successful load with push on a loaded session and a ScrollToAnchor with push
\* that scrolls are one: every other call leaves the entries on the forward stack
\* in place, and GoForward removes only the top
ForwardClearedOnlyByPush ==
    [][IF PushesHistory THEN history'.forwardStack = <<>>
       ELSE \/ IsPrefix(history.forwardStack, history'.forwardStack)
            \/ GoForward /\ history'.forwardStack = Pop(history.forwardStack)]_vars

\* a ScrollToAnchor with push has scrolled and left its entry on the back stack
ForwardClearedOnlyByPushWitness ==
    /\ last.op = "ScrollToAnchor"
    /\ last.ret = TRUE
    /\ history.backStack # <<>>
    /\ Top(history.backStack).Markdown = markdown
    /\ Top(history.backStack).ScrollOffset # scrollOffset
    /\ history.forwardStack = <<>>

\* C10: in every state the public calls reach, with any viewport height,
\* 0 <= scrollOffset <= max(0, len(renderedLines) - 1)
ScrollOffsetInRange ==
    /\ 0 <= scrollOffset
    /\ scrollOffset <= Max(0, Len(renderedLines) - 1)

\* C8: a history with maximum N keeps at most N entries on each stack; the
\* entries of a stack are the most recent pushes onto it, in push order; after
\* N or more pushes in a row onto one stack it holds exactly N entries; and a
\* pop returns the most recent push
BoundedHistory ==
    /\ Len(history.backStack) <= history.maxSize
    /\ Len(history.forwardStack) <= history.maxSize
    /\ IsSuffix(history.backStack, last.back)
    /\ IsSuffix(history.forwardStack, last.forward)
    /\ last.backRun >= history.maxSize => Len(history.backStack) = history.maxSize
    /\ last.forwardRun >= history.maxSize => Len(history.forwardStack) = history.maxSize
    /\ (last.op \in {"Back", "Forward"} /\ last.ok) => last.got = last.want

\* a pop from a back stack that had evicted its oldest entry
BoundedHistoryWitness ==
    /\ last.op = "Back"
    /\ last.ok
    /\ Len(last.back) >= history.maxSize
    /\ Len(history.backStack) < Len(last.back)

\* C11: right after a Home, End, PageUp or PageDown with a viewport height
\* h > 0 on a document of at least h lines, whatever heights the calls before
\* passed, scrollOffset <= len(renderedLines) - h
TerminalOffsetInRange ==
    [][\A h \in ViewportHeights :
          (/\ h > 0
           /\ Len(renderedLines) >= h
           /\ last'.op \in {"Home", "End", "PageUp", "PageDown"}
           /\ (Home(h) \/ End(h) \/ PageUp(h) \/ PageDown(h)))
              => scrollOffset' <= Len(renderedLines) - h]_vars

ValidLinks ==
    {j \in 1..Len(elements) :
        elements[j].Type = NavElementURL /\ elements[j].EndCol > elements[j].StartCol}

\* those that start in the viewport of height h
VisibleLinks(h) ==
    {j \in ValidLinks :
        scrollOffset <= elements[j].StartLine /\ elements[j].StartLine < scrollOffset + h}

First(S) == CHOOSE j \in S : \A k \in S : j <= k

Last(S) == CHOOSE j \in S : \A k \in S : j >= k

\* the call found nothing: it returns false and moves nothing
FindsNothing ==
    /\ last'.ret = FALSE
    /\ selectedIndex' = selectedIndex
    /\ scrollOffset' = scrollOffset

\* the call selects the element at place j and returns true
Selects(j) ==
    /\ last'.ret = TRUE
    /\ selectedIndex' = j - 1

\* C13: with nothing selected, MoveToNextLink(h) selects the first link with
\* endCol > startCol that starts in the viewport and MoveToPreviousLink(h) the
\* last one; when no such link starts in the viewport the call returns false
\* and leaves selectedIndex and scrollOffset, also when links lie outside it
TraversalFromViewport ==
    [][\A h \in ViewportHeights :
          /\ (selectedIndex = -1 /\ MoveToNextLink(h)) =>
                IF VisibleLinks(h) = {} THEN FindsNothing
                ELSE Selects(First(VisibleLinks(h)))
          /\ (selectedIndex = -1 /\ MoveToPreviousLink(h)) =>
                IF VisibleLinks(h) = {} THEN FindsNothing
                ELSE Selects(Last(VisibleLinks(h)))]_vars

\* a MoveToNextLink has found nothing although a link lies above the viewport
TraversalFromViewportWitness ==
    /\ last.op = "MoveToNextLink"
    /\ last.ret = FALSE
    /\ selectedIndex = -1
    /\ \E j \in ValidLinks : elements[j].StartLine < scrollOffset

\* C14: with element i selected, MoveToNextLink selects the nearest link after
\* i with endCol > startCol, in or out of the viewport, skipping headings and
\* links with endCol <= startCol, and returns true; with no such link it
\* returns false and leaves selectedIndex and scrollOffset.  MoveToPreviousLink
\* does the same with the nearest link before i.  Neither wraps around.
TraversalFromSelection ==
    [][\A h \in ViewportHeights :
          /\ (selectedIndex >= 0 /\ MoveToNextLink(h)) =>
                IF {j \in ValidLinks : j > selectedIndex + 1} = {} THEN FindsNothing
                ELSE Selects(First({j \in ValidLinks : j > selectedIndex + 1}))
          /\ (selectedIndex >= 0 /\ MoveToPreviousLink(h)) =>
                IF {j \in ValidLinks : j < selectedIndex + 1} = {} THEN FindsNothing
                ELSE Selects(Last({j \in ValidLinks : j < selectedIndex + 1}))]_vars

\* a MoveToNextLink has gone from the first link to the fourth element, over a
\* heading and a link that has no place
TraversalFromSelectionWitness ==
    /\ last.op = "MoveToNextLink"
    /\ last.ret = TRUE
    /\ selectedIndex = 3
    /\ elements[2].Type = NavElementHeader
    /\ elements[3].EndCol <= elements[3].StartCol
    /\ elements[1].StartLine = elements[4].StartLine

\* C15: MoveToFirst and MoveToLast select the first and the last link with
\* endCol > startCol of the document, wherever the viewport is, and return true;
\* they return false and leave selectedIndex and scrollOffset when that link is
\* selected already or when there is no such link
TraversalToEnds ==
    [][\A h \in ViewportHeights :
          /\ MoveToFirst(h) =>
                IF ValidLinks = {} \/ First(ValidLinks) = selectedIndex + 1
                THEN FindsNothing
                ELSE Selects(First(ValidLinks))
          /\ MoveToLast(h) =>
                IF ValidLinks = {} \/ Last(ValidLinks) = selectedIndex + 1
                THEN FindsNothing
                ELSE Selects(Last(ValidLinks))]_vars

\* a MoveToFirst has selected a first link that lies below the top of the page
TraversalToEndsWitness ==
    /\ last.op = "MoveToFirst"
    /\ last.ret = TRUE
    /\ selectedIndex = 0
    /\ elements[1].StartLine > 0
    /\ scrollOffset > 0

\* the four traversal calls with viewport height h
Traverses(h) ==
    /\ last'.op \in {"MoveToNextLink", "MoveToPreviousLink", "MoveToFirst", "MoveToLast"}
    /\ (MoveToNextLink(h) \/ MoveToPreviousLink(h) \/ MoveToFirst(h) \/ MoveToLast(h))

\* C16: after a traversal call with viewport height h > 0 that returns true
\* the selected element lies in the viewport: scrollOffset <= startLine,
\* endLine < scrollOffset + h and scrollOffset >= 0; and scrollOffset is as
\* before when the element was in the viewport already
SelectionInView ==
    [][\A h \in ViewportHeights :
          (h > 0 /\ Traverses(h) /\ last'.ret = TRUE) =>
              /\ scrollOffset' >= 0
              /\ scrollOffset' <= elements[selectedIndex' + 1].StartLine
              /\ elements[selectedIndex' + 1].EndLine < scrollOffset' + h
              /\ (/\ scrollOffset <= elements[selectedIndex' + 1].StartLine
                  /\ elements[selectedIndex' + 1].EndLine < scrollOffset + h)
                    => scrollOffset' = scrollOffset]_vars

\* a MoveToLast has scrolled down just far enough to show the last link on the
\* bottom line of the viewport
SelectionInViewWitness ==
    /\ last.op = "MoveToLast"
    /\ last.ret = TRUE
    /\ selectedIndex >= 0
    /\ scrollOffset > 0
    /\ elements[selectedIndex + 1].StartLine > scrollOffset

\* the headings with a slug, and the first of them
Anchors(slug) ==
    {j \in 1..Len(elements) :
        elements[j].Type = NavElementHeader /\ elements[j].Slug = slug}

Anchor(slug) == elements[First(Anchors(slug))]

\* ScrollToAnchor has nothing to jump to, or no need to jump
NoJump(slug, h) ==
    \/ Anchors(slug) = {}
    \/ /\ ~alwaysScrollToAnchor
       /\ scrollOffset <= Anchor(slug).StartLine
       /\ Anchor(slug).StartLine < scrollOffset + h

\* C17: a ScrollToAnchor that finds no heading with the slug returns false,
\* one that finds the heading in the viewport while alwaysScrollToAnchor is off
\* returns true, and both leave scrollOffset, selectedIndex, the back stack and
\* the forward stack as they were, whatever pushHistory is
AnchorWithoutJump ==
    [][\A slug \in Slugs, h \in ViewportHeights, push \in BOOLEAN :
          (/\ last'.op = "ScrollToAnchor"
           /\ NoJump(slug, h)
           /\ ScrollToAnchor(slug, h, push)) =>
              /\ last'.ret = (Anchors(slug) # {})
              /\ scrollOffset' = scrollOffset
              /\ selectedIndex' = selectedIndex
              /\ history'.backStack = history.backStack
              /\ history'.forwardStack = history.forwardStack]_vars

\* a ScrollToAnchor has found its heading and left a forward stack, which a
\* saved position would have emptied: the heading is in every viewport that
\* starts on the session's line
AnchorWithoutJumpWitness ==
    /\ last.op = "ScrollToAnchor"
    /\ last.ret = TRUE
    /\ ~alwaysScrollToAnchor
    /\ history.forwardStack # <<>>
    /\ selectedIndex >= 0
    /\ Anchors(<<"t", "o", "p">>) # {}
    /\ scrollOffset < Anchor(<<"t", "o", "p">>).StartLine

\* C18: a ScrollToAnchor that jumps returns true, leaves scrollOffset =
\* min(heading.startLine, max(0, len(renderedLines) - viewportHeight)) and
\* selectedIndex as it was, and puts a snapshot of the state before the jump on
\* the back stack iff pushHistory is true; a GoBack right after it then shows
\* the same document with the scrollOffset and the selection of the snapshot
AnchorWithJump ==
    [][/\ \A slug \in Slugs, h \in ViewportHeights, push \in BOOLEAN :
             (/\ last'.op = "ScrollToAnchor"
              /\ ~NoJump(slug, h)
              /\ ScrollToAnchor(slug, h, push)) =>
                 /\ last'.ret = TRUE
                 /\ scrollOffset' = Min(Anchor(slug).StartLine,
                                        Max(0, Len(renderedLines) - h))
                 /\ selectedIndex' = selectedIndex
                 /\ IF push
                    THEN /\ history'.backStack # <<>>
                         /\ Top(history'.backStack) = Snapshot
                    ELSE history' = history
       /\ (/\ last.op = "ScrollToAnchor"
           /\ last'.op = "GoBack"
           /\ history.backStack # <<>>
           /\ Top(history.backStack)
                 = [Snapshot EXCEPT !.ScrollOffset = Top(history.backStack).ScrollOffset]
           /\ GoBack) =>
              /\ last'.ret = TRUE
              /\ markdown' = markdown
              /\ currentSourceFile' = currentSourceFile
              /\ elements' = elements
              /\ scrollOffset' = Top(history.backStack).ScrollOffset
              /\ selectedIndex' = Top(history.backStack).SelectedIndex]_vars

\* a GoBack has returned, with the link still selected, to the line above the
\* heading a ScrollToAnchor had jumped to
AnchorWithJumpWitness ==
    /\ last.op = "GoBack"
    /\ last.ret = TRUE
    /\ selectedIndex >= 0
    /\ history.forwardStack # <<>>
    /\ Top(history.forwardStack).Markdown = markdown
    /\ Top(history.forwardStack).SelectedIndex = selectedIndex
    /\ Top(history.forwardStack).ScrollOffset > scrollOffset
    /\ Anchors(<<"t", "o", "p">>) # {}
    /\ Top(history.forwardStack).ScrollOffset = Anchor(<<"t", "o", "p">>).StartLine

\* the bound of the scroll offset in a viewport of h lines
Bound(h) == IF Len(renderedLines) - h > 0 THEN Len(renderedLines) - h ELSE 0

\* the call returns true iff it has changed scrollOffset
TrueIffMoved == last'.ret = (scrollOffset' # scrollOffset)

\* C19: from a scrollOffset s <= maxOffset = max(0, len(renderedLines) - h),
\* PageDown(h) leaves min(s + h, maxOffset) and PageUp(h) leaves max(s - h, 0),
\* ScrollDown(h) adds one iff s < maxOffset and ScrollUp takes one off iff
\* s > 0; each returns true iff scrollOffset has changed
PagingBySteps ==
    [][\A h \in ViewportHeights :
          scrollOffset <= Bound(h) =>
              /\ (last'.op = "PageDown" /\ PageDown(h)) =>
                    /\ scrollOffset' = Min(scrollOffset + h, Bound(h))
                    /\ TrueIffMoved
              /\ (last'.op = "PageUp" /\ PageUp(h)) =>
                    /\ scrollOffset' = Max(scrollOffset - h, 0)
                    /\ TrueIffMoved
              /\ (last'.op = "ScrollDown" /\ ScrollDown(h)) =>
                    /\ scrollOffset' = IF scrollOffset < Bound(h)
                                       THEN scrollOffset + 1 ELSE scrollOffset
                    /\ TrueIffMoved
              /\ (last'.op = "ScrollUp" /\ ScrollUp(h)) =>
                    /\ scrollOffset' = IF scrollOffset > 0
                                       THEN scrollOffset - 1 ELSE scrollOffset
                    /\ TrueIffMoved]_vars

\* a PageDown has stopped one line down a page of three lines, at the bound of
\* a viewport of two
PagingByStepsWitness ==
    /\ last.op = "PageDown"
    /\ last.ret = TRUE
    /\ Len(renderedLines) = 3
    /\ scrollOffset = 1
    /\ selectedIndex >= 0

\* the element selected before the step is off-screen in a viewport of h lines
\* at the new scrollOffset
OffScreen(h) ==
    /\ selectedIndex >= 0
    /\ \/ elements[selectedIndex + 1].EndLine < scrollOffset'
       \/ elements[selectedIndex + 1].StartLine >= scrollOffset' + h

\* a scroll call with viewport height h that C20 speaks of
Scrolls(h) ==
    \/ last'.op = "ScrollUp" /\ last'.ret = TRUE /\ ScrollUp(h)
    \/ last'.op = "ScrollDown" /\ last'.ret = TRUE /\ ScrollDown(h)
    \/ last'.op = "Home" /\ Home(h)
    \/ last'.op = "End" /\ End(h)

\* C20: after a ScrollUp or ScrollDown that moved, and after a Home or an End,
\* with viewport height h > 0, selectedIndex is -1 if the element selected
\* before is off-screen at the new scrollOffset and is unchanged otherwise;
\* no scroll call selects an element
ScrollClearsOffScreen ==
    [][\A h \in ViewportHeights :
          /\ (h > 0 /\ Scrolls(h)) =>
                selectedIndex' = IF OffScreen(h) THEN -1 ELSE selectedIndex
          /\ (/\ last'.op \in {"ScrollUp", "ScrollDown", "PageUp", "PageDown",
                               "Home", "End"}
              /\ \/ ScrollUp(h) \/ ScrollDown(h) \/ PageUp(h) \/ PageDown(h)
                 \/ Home(h) \/ End(h)) =>
                selectedIndex' \in {selectedIndex, -1}]_vars

\* a ScrollDown has moved the selected link to the top line of the viewport
\* and left it selected
ScrollClearsOffScreenWitness ==
    /\ last.op = "ScrollDown"
    /\ last.ret = TRUE
    /\ selectedIndex >= 0
    /\ scrollOffset > 0
    /\ elements[selectedIndex + 1].StartLine = scrollOffset

\* the width SetWidth(cols) asks for: negative values are treated as 0
Asked(cols) == IF cols < 0 THEN 0 ELSE cols

\* SetWidth(cols) has nothing to render, or its render fails
NoRender(cols, err) ==
    \/ Asked(cols) = currentWidth
    \/ markdown = ""
    \/ err

\* SetWidth returns true iff it re-rendered; when it returns false markdown,
\* renderedLines, elements, selectedIndex, scrollOffset and history are as
\* before, and so is currentWidth unless the markdown is empty, when the width
\* asked for is stored
WidthFrame(cols, err) ==
    /\ last'.ret = ~NoRender(cols, err)
    /\ ~NoRender(cols, err) =>
          /\ currentWidth' = Asked(cols)
          /\ renderedLines' = Render(markdown, wordWrap')
    /\ NoRender(cols, err) =>
          /\ UNCHANGED <<markdown, renderedLines, elements, selectedIndex,
                         scrollOffset, history>>
          /\ currentWidth' = IF markdown = "" THEN Asked(cols) ELSE currentWidth

\* the word-wrap limit the next load renders with
LoadWrap == rendererForWidth(currentWidth)

\* C21: SetWidth returns true iff it re-rendered; when it returns false (the
\* width is the current one, the markdown is empty or the renderer fails)
\* markdown, renderedLines, elements, selectedIndex, scrollOffset and history
\* are unchanged, and currentWidth too, except that with empty markdown the new
\* width is stored and is the width the next load renders at
SetWidthUnchanged ==
    [][\A cols \in Cols, err \in BOOLEAN :
          (last'.op = "SetWidth" /\ SetWidth(cols, err)) =>
              /\ WidthFrame(cols, err)
              /\ (markdown = "" /\ Asked(cols) # currentWidth) => LoadWrap' = Asked(cols)]_vars

\* the same without the width of the next load
SetWidthFrame ==
    [][\A cols \in Cols, err \in BOOLEAN :
          (last'.op = "SetWidth" /\ SetWidth(cols, err)) => WidthFrame(cols, err)]_vars

\* a SetWidth has re-rendered
Rerenders ==
    /\ last'.op = "SetWidth"
    /\ last'.ret = TRUE
    /\ \E cols \in Cols : SetWidth(cols, FALSE)

\* C22: after a SetWidth that re-renders to a non-empty line buffer
\* 0 <= scrollOffset <= len(renderedLines) - 1, whatever the scroll offset was
\* before, with or without an anchor element, with or without a selected link
ScrollClampedOnResize ==
    [][(Rerenders /\ renderedLines' # <<>>) =>
          /\ 0 <= scrollOffset'
          /\ scrollOffset' <= Len(renderedLines') - 1]_vars

\* C23: a SetWidth that re-renders leaves the selection on the same element:
\* a link selected before is selected after, at the same index, also where
\* other links have its URL and text; and nothing is selected after when
\* nothing was selected before
SelectionKeptOnResize ==
    [][Rerenders => selectedIndex' = selectedIndex]_vars

\* the headings before element i whose text gives the base slug of element i
Earlier(i) ==
    {j \in 1..(i - 1) : generateSlug(elements[j].Text) = generateSlug(elements[i].Text)}

\* C24: the headings of a document whose texts give one base slug s get, in
\* document order, the slugs s, s-1, s-2, ...
SlugNumbering ==
    last.op = "parseMarkdownWithSource" =>
        \A i \in 1..Len(elements) :
            elements[i].Slug =
                IF Earlier(i) = {} THEN generateSlug(elements[i].Text)
                ELSE generateSlug(elements[i].Text) \o <<"-">> \o Itoa(Cardinality(Earlier(i)))

\* three headings of one base slug, written in two ways, have been numbered
SlugNumberingWitness ==
    /\ last.op = "parseMarkdownWithSource"
    /\ Len(elements) = 4
    /\ elements[4].Slug = <<"t", "o", "p", "-", "2">>
    /\ elements[3].Text # elements[1].Text
    /\ elements[2].Slug = <<"n", "o">>

\* C25: after a load every heading is the one FindHeaderBySlug finds for its
\* slug: no two headings of a document have the same slug, whatever their
\* texts are
SlugsUnique ==
    last.op = "parseMarkdownWithSource" =>
        \A i \in 1..Len(elements) :
            /\ First(Anchors(elements[i].Slug)) = i
            /\ FindHeaderBySlug(elements[i].Slug) = <<elements[i]>>

\* a joiner, then n word joiners, then a joiner
LevelMarker(n) == <<"ZWJ">> \o [i \in 1..n |-> "WJ"] \o <<"ZWJ">>

\* C26: DecodeHeaderLevel(HeaderStartMarker(L)) = min(max(L, 1), 6) for every
\* L, and DecodeHeaderLevel returns 0, and does not fail, on every input that
\* is not a joiner, 1..6 word joiners and a joiner
HeaderLevelCodec ==
    /\ last.op = "DecodeHeaderLevel(HeaderStartMarker)" =>
          /\ ~last.ret.panic
          /\ last.ret.level = Min(Max(last.level, 1), 6)
    /\ last.op = "DecodeHeaderLevel" =>
          /\ ~last.ret.panic
          /\ \A n \in 1..6 : last.marker = LevelMarker(n) => last.ret.level = n
          /\ (\A n \in 1..6 : last.marker # LevelMarker(n)) => last.ret.level = 0

\* the pieces of a line that show
IsText(token) == token \in {"a", "b"}

\* the visible column at which piece p of a line starts
Col(tokens, p) == Cardinality({k \in 1..(p - 1) : IsText(tokens[k])})

\* no two neighbouring markers spell a third one between them
Apart(tokens) ==
    \A k \in 1..(Len(tokens) - 1) :
        <<tokens[k], tokens[k + 1]>>
            \notin {<<"S", "S">>, <<"E", "E">>, <<"H", "E">>, <<"F", "S">>}

\* the balanced pairs of a line: a start marker and the next end marker of
\* its kind, with no marker of that kind between them
Pairs(tokens) ==
    {pair \in [open : 1..Len(tokens), close : 1..Len(tokens), Type : {"link", "header"}] :
        /\ pair.open < pair.close
        /\ tokens[pair.open] = (IF pair.Type = "link" THEN "S" ELSE "H")
        /\ tokens[pair.close] = (IF pair.Type = "link" THEN "E" ELSE "F")
        /\ \A k \in (pair.open + 1)..(pair.close - 1) :
              tokens[k] \notin (IF pair.Type = "link" THEN {"S", "E"} ELSE {"H", "F"})}

\* the position of a pair on line lineIdx
PositionOf(pair, tokens, lineIdx) ==
    [found    |-> TRUE,
     Type     |-> pair.Type,
     Level    |-> IF pair.Type = "header" THEN 2 ELSE 0,
     LineIdx  |-> lineIdx,
     StartCol |-> Col(tokens, pair.open + 1),
     EndCol   |-> Col(tokens, pair.close)]

\* the start markers of a line with no end marker of their kind after them
LoneOpeners(tokens) ==
    {p \in 1..Len(tokens) :
        /\ tokens[p] \in {"S", "H"}
        /\ \A k \in (p + 1)..Len(tokens) :
              tokens[k] # (IF tokens[p] = "S" THEN "E" ELSE "F")}

\* the positions come line by line and left to right, and none ends before
\* it starts
InOrder(ret) ==
    /\ \A i, j \in 1..Len(ret) :
          i < j => /\ ret[i].LineIdx <= ret[j].LineIdx
                   /\ ret[i].LineIdx = ret[j].LineIdx => ret[i].StartCol <= ret[j].StartCol
    /\ \A i \in 1..Len(ret) : ret[i].EndCol >= ret[i].StartCol

\* C27: ExtractAllMarkers returns its positions line by line and, on a line,
\* from left to right, each with endCol >= startCol; a start marker with no
\* end marker of its kind after it on its line gives no position, and every
\* balanced pair after it on the line is extracted with its own columns
MarkersWellFormed ==
    last.op = "ExtractAllMarkers" =>
        /\ InOrder(last.ret)
        /\ Apart(last.tokens) =>
              /\ \A kind \in {"S", "H"} :
                    (\A p \in 1..Len(last.tokens) :
                        last.tokens[p] = kind => p \in LoneOpeners(last.tokens))
                      => \A i \in 1..Len(last.ret) :
                            last.ret[i].Type # (IF kind = "S" THEN "link" ELSE "header")
              /\ \A p \in LoneOpeners(last.tokens), pair \in Pairs(last.tokens), lineIdx \in 0..1 :
                    pair.open > p =>
                        \E i \in 1..Len(last.ret) :
                            last.ret[i] = PositionOf(pair, last.tokens, lineIdx)

\* every marker of the line is in one balanced pair, and the pairs lie apart
\* or a link pair lies inside a heading pair
Balanced(tokens) ==
    /\ Apart(tokens)
    /\ \A k \in 1..Len(tokens) :
          tokens[k] \in {"S", "E", "H", "F"} =>
              \E pair \in Pairs(tokens) : k \in {pair.open, pair.close}
    /\ \A l, h \in Pairs(tokens) :
          (l.Type = "link" /\ h.Type = "header") =>
              \/ l.close < h.open
              \/ h.close < l.open
              \/ h.open < l.open /\ l.close < h.close

\* the letters between the markers of a pair
MarkedText(tokens, pair) ==
    SelectSeq(SubSeq(tokens, pair.open + 1, pair.close - 1), IsText)

\* C28: on lines in which every heading and every link is in one balanced
\* marker pair on one line, a link pair inside a heading pair or not,
\* ExtractAllMarkers returns one position for each pair, and the runes
\* [startCol, endCol) of the cleaned line are the text the pair marks
MarkerRoundTrip ==
    (last.op = "ExtractAllMarkers" /\ Balanced(last.tokens)) =>
        /\ Len(last.ret) = 2 * Cardinality(Pairs(last.tokens))
        /\ \A pair \in Pairs(last.tokens), lineIdx \in 0..1 :
              \E i \in 1..Len(last.ret) :
                  /\ last.ret[i] = PositionOf(pair, last.tokens, lineIdx)
                  /\ SubSeq(stripANSIAndMarkers(last.lines[lineIdx + 1]),
                            last.ret[i].StartCol + 1, last.ret[i].EndCol)
                        = MarkedText(last.tokens, pair)


\* the calls 1..i of the pass made for the kind of call i: links, or headings
\* of its level
SameKind(pass, i) ==
    {j \in 1..i :
        /\ pass[j].elem.Type = pass[i].elem.Type
        /\ pass[i].elem.Type = NavElementHeader => pass[j].elem.Level = pass[i].elem.Level}

\* those of the markers that are of the kind of call i, in document order
MarkersFor(pass, i, markers) ==
    SelectSeq(markers,
              LAMBDA pos : IF pass[i].elem.Type = NavElementURL
                           THEN pos.Type = MarkerTypeLink
                           ELSE pos.Type = MarkerTypeHeader /\ pos.Level = pass[i].elem.Level)

\* call i is the k-th of its kind and there is a k-th marker of the kind
HasMarker(pass, i, markers) ==
    Cardinality(SameKind(pass, i)) <= Len(MarkersFor(pass, i, markers))

\* the answer of call i is the marker that the count of the calls gives it
ByMarker(pass, i, markers) ==
    LET pos == MarkersFor(pass, i, markers)[Cardinality(SameKind(pass, i))]
    IN  pass[i].res = [found |-> TRUE, lineIdx |-> pos.LineIdx,
                       startCol |-> pos.StartCol, endCol |-> pos.EndCol]

\* the text between the columns of an answer, on the cleaned line
AnswerText(res, lines) ==
    Slice(stripANSIAndMarkers(At(lines, res.lineIdx)), res.startCol, res.endCol)

\* the calls of a pass on lines whose markers, in document order, are markers
Positional(pass, lines, markers) ==
    /\ \A i \in 1..Len(pass) : HasMarker(pass, i, markers) => ByMarker(pass, i, markers)
    /\ \A i, j \in 1..Len(pass) :
          (/\ i < j
           /\ pass[i].elem.Type = NavElementURL
           /\ pass[j].elem.Type = NavElementURL
           /\ pass[i].elem.Text = pass[j].elem.Text
           /\ HasMarker(pass, j, markers)
           /\ AnswerText(pass[i].res, lines) = pass[i].elem.Text
           /\ AnswerText(pass[j].res, lines) = pass[j].elem.Text)
            => \/ pass[i].res.lineIdx < pass[j].res.lineIdx
               \/ /\ pass[i].res.lineIdx = pass[j].res.lineIdx
                  /\ pass[i].res.startCol < pass[j].res.startCol

\* C29: after Reset, the k-th call of CorrelatePosition for a link returns
\* the k-th link marker of the lines and the j-th call for a heading of level
\* L the j-th heading marker of level L, whatever the texts of the elements
\* and the order of the calls; links of one text that the markers hold get
\* distinct (line, startCol) pairs, in the order of the source
PositionalCorrelation ==
    last.op = "CorrelatePosition" =>
        Positional(last.pass, last.lines, ExtractAllMarkers(last.lines))

\* two links of the text "a" on one line, asked for around a heading of the
\* next line, have got the columns 0 and 2
PositionalCorrelationWitness ==
    /\ last.op = "CorrelatePosition"
    /\ last.lines = << LineOf(<<"S", "a", "E", "b", "S", "a", "E">>), LineOf(<<"H", "a", "F">>) >>
    /\ Len(last.pass) = 3
    /\ last.pass[1].elem = [Type |-> NavElementURL, Text |-> <<"a">>, Level |-> 0]
    /\ last.pass[2].elem.Type = NavElementHeader
    /\ last.pass[3].elem = last.pass[1].elem
    /\ last.pass[1].res = [found |-> TRUE, lineIdx |-> 0, startCol |-> 0, endCol |-> 1]
    /\ last.pass[2].res = [found |-> TRUE, lineIdx |-> 1, startCol |-> 0, endCol |-> 1]
    /\ last.pass[3].res = [found |-> TRUE, lineIdx |-> 0, startCol |-> 2, endCol |-> 3]

\* the runes of a line from 0-based index p on begin with marker
MarkerAt(line, p, marker) ==
    /\ p + Len(marker) <= Len(line)
    /\ Slice(line, p, p + Len(marker)) = marker

\* a line holds a marker pair: a start marker and, after it, the end marker
\* of its kind
HasMarkerPair(line) ==
    \E p \in 0..(Len(line) - 1) :
        \/ /\ MarkerAt(line, p, LinkStartMarker)
           /\ \E q \in (p + 2)..(Len(line) - 1) : MarkerAt(line, q, LinkEndMarker)
        \/ \E level \in 1..6 :
              /\ MarkerAt(line, p, HeaderStartMarker(level))
              /\ \E q \in (p + level + 2)..(Len(line) - 1) :
                    MarkerAt(line, q, HeaderEndMarker)

\* the correlator before call i of the pass
Before(pass, i) == IF i = 1 THEN MarkerCorrelator ELSE pass[i - 1].mc

\* the calls of a pass on lines that hold a marker pair (marked) or none
Fallback(pass, lines, markers, marked) ==
    \A i \in 1..Len(pass) :
        /\ ~marked => pass[i].res = ScoringCorrelatePosition(pass[i].elem, lines)
        /\ (marked /\ ~HasMarker(pass, i, markers)) =>
              /\ pass[i].res = ScoringCorrelatePosition(pass[i].elem, lines)
              /\ pass[i].mc.linkCounter = Before(pass, i).linkCounter
              /\ pass[i].mc.headerCounter = Before(pass, i).headerCounter
              /\ \A j \in (i + 1)..Len(pass) :
                    HasMarker(pass, j, markers) => ByMarker(pass, j, markers)

\* C30: on lines without a marker pair CorrelatePosition returns what the
\* scoring correlator returns for the element and the lines; on lines with
\* markers but without the occurrence asked for (the next link, the next
\* heading of the level), that element alone is answered by the scoring
\* correlator, the link and heading counters stay as they were, and the
\* later elements are still matched to markers
FallbackCorrelation ==
    last.op = "CorrelatePosition" =>
        Fallback(last.pass, last.lines, ExtractAllMarkers(last.lines),
                 \E l \in 1..Len(last.lines) : HasMarkerPair(last.lines[l]))

\* on a heading and a link in one line and a line without markers, the second
\* link asked for has been found by its text, the counters have stayed, and
\* the heading asked for next has got its marker
FallbackCorrelationWitness ==
    /\ last.op = "CorrelatePosition"
    /\ last.lines = << LineOf(<<"G", "a", "F", "S", "b", "E">>), LineOf(<<"a", " ", "b">>) >>
    /\ Len(last.pass) = 3
    /\ last.pass[1].elem.Type = NavElementURL
    /\ last.pass[2].elem = [Type |-> NavElementURL, Text |-> <<"a">>, Level |-> 0]
    /\ last.pass[3].elem = [Type |-> NavElementHeader, Text |-> <<"a">>, Level |-> 1]
    /\ last.pass[1].res = [found |-> TRUE, lineIdx |-> 0, startCol |-> 1, endCol |-> 2]
    /\ last.pass[2].res = [found |-> TRUE, lineIdx |-> 1, startCol |-> 0, endCol |-> 1]
    /\ last.pass[2].mc.linkCounter = 1
    /\ last.pass[3].res = [found |-> TRUE, lineIdx |-> 0, startCol |-> 0, endCol |-> 1]
    /\ last.pass[3].mc.headerCounter[1] = 1


\* an OnSelect that ends before it commits a load
SelectFails(viewerNil, elem, fetchErr, content, renderErr) ==
    viewerNil \/ elem.Type # NavElementURL \/ fetchErr \/ content = "" \/ renderErr

\* what OnSelect returns when it ends before the load
SelectError(viewerNil, elem, fetchErr, content) ==
    /\ (viewerNil /\ elem.Type = NavElementURL) => last'.ret = "ErrNilViewer"
    /\ (~viewerNil /\ elem.Type # NavElementURL) => last'.ret = "ErrNotLink"
    /\ (viewerNil /\ elem.Type # NavElementURL) => last'.ret \in {"ErrNilViewer", "ErrNotLink"}
    /\ (~viewerNil /\ elem.Type = NavElementURL /\ fetchErr) => last'.ret = "fetch content"
    /\ (~viewerNil /\ elem.Type = NavElementURL /\ ~fetchErr /\ content = "") =>
          last'.ret = "ErrEmptyContent"

\* C31: OnSelect returns ErrNotLink for an element that is no link, the nil
\* viewer error for a nil session, the provider's error wrapped, and
\* ErrEmptyContent for empty content; in these cases and when the render of
\* the load fails, the session and both history stacks stay as they were; a
\* successful OnSelect is a load with a history push: the page it left, when
\* not empty, is the top of the back stack
FetchFailuresKeepSession ==
    [][\A call \in Calls :
          OnSelect(call.viewerNil, call.elem, call.fetchErr, call.content, call.renderErr) =>
              /\ SelectError(call.viewerNil, call.elem, call.fetchErr, call.content)
              /\ SelectFails(call.viewerNil, call.elem, call.fetchErr, call.content,
                             call.renderErr) =>
                    /\ last'.ret # "nil"
                    /\ UNCHANGED sessionVars
              /\ ~SelectFails(call.viewerNil, call.elem, call.fetchErr, call.content,
                              call.renderErr) =>
                    /\ last'.ret = "nil"
                    /\ markdown' = call.content
                    /\ renderedLines' = Render(call.content, wordWrap')
                    /\ selectedIndex' = -1
                    /\ scrollOffset' = 0
                    /\ IF markdown = "" THEN history' = history
                       ELSE /\ history'.backStack # <<>>
                            /\ Top(history'.backStack) = Snapshot
                            /\ history'.forwardStack = <<>>]_vars

\* a link of a loaded page with history on both stacks was activated and the
\* provider returned nothing
FetchFailuresKeepSessionWitness ==
    /\ last.op = "OnSelect"
    /\ last.ret = "ErrEmptyContent"
    /\ markdown # ""
    /\ history.backStack # <<>>
    /\ history.forwardStack # <<>>


\* the cleaned form of a URL leaves more than one parent directory
Escapes(linkURL) ==
    LET cleaned == Clean(linkURL).segs
    IN  Len(cleaned) >= 2 /\ cleaned[1] = ".." /\ cleaned[2] = ".."

\* C32: for every link URL that is no HTTP URL and whose cleaned form begins
\* with two or more "..", written at the head of the URL or after other
\* segments, ResolveMarkdownPath returns ErrDirectoryTraversal and no path;
\* so it does for an absolute URL whose first segment is etc, sys, proc or
\* root and for a relative URL with a segment etc/, var/, usr/, sys/, proc/
\* or root/
TraversalBlocked ==
    (/\ last.op = "ResolveMarkdownPath"
     /\ ~isHTTPPath(last.linkURL)
     /\ \/ Escapes(last.linkURL)
        \/ /\ last.linkURL.abs
           /\ Clean(last.linkURL).segs # <<>>
           /\ Clean(last.linkURL).segs[1] \in {"etc", "sys", "proc", "root"}
        \/ /\ ~last.linkURL.abs
           /\ \E i \in 1..(Len(last.linkURL.segs) - 1) :
                 last.linkURL.segs[i] \in {"etc", "var", "usr", "sys", "proc", "root"})
        => last.ret = [path |-> NoPath, err |-> "ErrDirectoryTraversal"]


\* C33: VisibleLines(h) returns the lines [scrollOffset, min(scrollOffset +
\* h, len(renderedLines))) of renderedLines, at most h of them, with the
\* scrollOffset it leaves; it returns none for h <= 0, for no lines and for
\* scrollOffset >= len(renderedLines); of the session it changes nothing
\* but a negative scrollOffset, which is 0 whenever lines are returned
VisibleWindow ==
    [][last'.op = "VisibleLines" =>
        LET h == last'.viewportHeight
            n == Len(renderedLines)
        IN  /\ UNCHANGED <<markdown, currentSourceFile, renderedLines, elements,
                           selectedIndex, history, currentWidth,
                           alwaysScrollToAnchor, wordWrap>>
            /\ scrollOffset' = scrollOffset \/ (scrollOffset < 0 /\ scrollOffset' = 0)
            /\ Len(last'.ret) <= Max(h, 0)
            /\ IF h <= 0 \/ n = 0 \/ scrollOffset >= n
               THEN last'.ret = <<>>
               ELSE /\ scrollOffset' >= 0
                    /\ last'.ret = Slice(renderedLines, scrollOffset',
                                         Min(scrollOffset' + h, n))]_vars

\* the viewport of a session left at a negative offset: the offset is 0 and
\* the height cuts the lines
VisibleWindowWitness ==
    /\ last.op = "VisibleLines"
    /\ scrollOffset = 0
    /\ Len(renderedLines) > last.viewportHeight
    /\ Len(last.ret) = 2


\* C34: the word wrap of every render is the width of the session: a load
\* renders with word wrap currentWidth and SetWidth(cols) with cols, 0 for no
\* wrapping, after whatever SetWidth, loads, GoBack and GoForward came
\* before, a positive width on the same renderer too
RenderAtSessionWidth ==
    [][/\ last'.op = "SetMarkdownWithSource" => wordWrap' = currentWidth
       /\ \A cols \in Cols, err \in BOOLEAN :
             (/\ last'.op = "SetWidth"
              /\ SetWidth(cols, err)
              /\ markdown # ""
              /\ currentWidth # Asked(cols)) => wordWrap' = Asked(cols)]_vars


\* what the correlator reports for the elements against the lines
Reported(elems, lines) == correlateFrom(NewMarkerCorrelator, elems, 0, lines)

\* C35: in every state of the session every element with EndCol > StartCol
\* has 0 <= StartLine = EndLine < len(renderedLines), and its StartLine,
\* StartCol and EndCol are the position the correlator reports for it against
\* the renderedLines of that state; so no element keeps, after SetWidth has
\* rendered again, a position of the render before
PositionsCurrent ==
    \A i \in 1..Len(elements) :
        elements[i].EndCol > elements[i].StartCol =>
            /\ 0 <= elements[i].StartLine
            /\ elements[i].StartLine = elements[i].EndLine
            /\ elements[i].StartLine < Len(renderedLines)
            /\ LET c == Reported(elements, renderedLines)[i]
               IN  /\ c.found
                   /\ c.lineIdx = elements[i].StartLine
                   /\ c.startCol = elements[i].StartCol
                   /\ c.endCol = elements[i].EndCol


\* the report i is found and no found report of its key is longer
Wins(correlations, i) ==
    /\ correlations[i].found
    /\ \A j \in 1..Len(correlations) :
          (correlations[j].found /\ PositionKey(correlations[j]) = PositionKey(correlations[i]))
              => correlations[j].endCol - correlations[j].startCol
                     <= correlations[i].endCol - correlations[i].startCol

\* C36: on a load, of the elements the correlator reports found at the same
\* (lineIdx, startCol), those whose length EndCol - StartCol is the longest
\* of the key, and no others, take the reported position; the others stay
\* with EndCol = StartCol; an element alone at its key takes its position,
\* a match of length 0 at line 0, column 0 too
LongestTakesPosition ==
    last.op = "correlatePositions" =>
        \A i \in 1..Len(last.correlations) :
            LET c == last.correlations[i]
                e == last.ret[i]
            IN  IF Wins(last.correlations, i)
                THEN /\ e.StartLine = c.lineIdx /\ e.EndLine = c.lineIdx
                     /\ e.StartCol = c.startCol /\ e.EndCol = c.endCol
                ELSE e = FreshElement

\* three found at line 1, column 1: the first shorter than the other two,
\* which take the position
LongestTakesPositionWitness ==
    /\ last.op = "correlatePositions"
    /\ Len(last.correlations) = 3
    /\ \A i \in 1..3 : last.correlations[i].found
                          /\ PositionKey(last.correlations[i]) = <<1, 1>>
    /\ ~Wins(last.correlations, 1)
    /\ last.ret[1].EndCol = last.ret[1].StartCol
    /\ last.ret[2].EndCol = 3
    /\ last.ret[3].EndCol = 3


\* whitespace or one of the punctuation runes of a word boundary
BoundaryRune(r) == IsSpace(r) \/ r \in {"BULLET", ".", ",", ":", ";", "!", "?", "#"}

\* the occurrences of text in line: the columns they start at
Occurrences(line, text) ==
    {col \in 0..(Len(line) - Len(text)) : Slice(line, col, col + Len(text)) = text}

\* the occurrence at col is delimited on both sides
WholeWord(line, text, col) ==
    /\ col = 0 \/ BoundaryRune(At(line, col - 1))
    /\ col + Len(text) = Len(line) \/ BoundaryRune(At(line, col + Len(text)))

\* the occurrence at col is part of a longer word
Embedded(line, text, col) ==
    \/ col > 0 /\ (IsLetter(At(line, col - 1)) \/ IsDigit(At(line, col - 1)))
    \/ /\ col + Len(text) < Len(line)
       /\ IsLetter(At(line, col + Len(text))) \/ IsDigit(At(line, col + Len(text)))

\* C37: the scoring correlator prefers whole words: the start of a match is
\* a boundary iff it is at column 0 or the rune before it is whitespace or
\* listed punctuation, its end iff it is the end of the line or the rune
\* after it is such a rune; so when the text of the element occurs delimited
\* on both sides somewhere, the position chosen is no occurrence inside a
\* longer word, whichever line comes first; and of the candidates with the
\* best score the one on the lowest line is chosen
ScoringPrefersWholeWords ==
    last.op = "ScoringCorrelatePosition" =>
        LET text == last.elem.Text
            all == allCandidatesFrom(text, last.lines, 0, last.elem.Type, last.elem.Level)
        IN  /\ (\E i \in 1..Len(last.lines) : \E col \in Occurrences(last.lines[i], text) :
                    WholeWord(last.lines[i], text, col))
                => /\ last.ret.found
                   /\ ~Embedded(At(last.lines, last.ret.lineIdx), text, last.ret.startCol)
            /\ last.ret.found =>
                  \E k \in 1..Len(all) :
                      /\ all[k].lineIdx = last.ret.lineIdx
                      /\ all[k].startCol = last.ret.startCol
                      /\ \A j \in 1..Len(all) :
                            /\ all[j].score <= all[k].score
                            /\ all[j].score = all[k].score
                                  => all[j].lineIdx >= all[k].lineIdx


\* C38: the spans the extractor emits never overlap: after a link or a
\* heading position the scan goes on after the end marker that closed it, so
\* on one line the spans [StartCol, EndCol) of the positions are pairwise
\* disjoint and each begins where the one before it ended or later, for
\* every line of marker and visible runes, marked text that begins with a
\* marker rune too
SpansDisjoint ==
    last.op = "ExtractAllMarkers" =>
        \A i, j \in 1..Len(last.ret) :
            (i < j /\ last.ret[i].LineIdx = last.ret[j].LineIdx)
                => last.ret[i].EndCol <= last.ret[j].StartCol


\* the entries of both stacks
Entries(h) == Len(h.backStack) + Len(h.forwardStack)

\* C39: in every state of the session the back stack and the forward stack
\* hold together at most N entries, N the capacity of the history; so the
\* push of a GoBack or a GoForward evicts nothing, and a GoBack or GoForward
\* that returns true leaves the number of entries as it was
HistoryTotalBounded ==
    [][/\ Entries(history') <= history'.maxSize
       /\ (last'.op \in {"GoBack", "GoForward"} /\ last'.ret)
              => Entries(history') = Entries(history)]_vars

\* a GoBack in a full history: both stacks hold entries, N together
HistoryTotalBoundedWitness ==
    /\ last.op = "GoBack"
    /\ last.ret
    /\ Len(history.backStack) >= 1
    /\ Len(history.forwardStack) >= 1
    /\ Entries(history) = history.maxSize


\* the calls that scroll and the calls that move the selection
NavigationCalls ==
    {"ScrollUp", "ScrollDown", "PageUp", "PageDown", "Home", "End",
     "MoveToNextLink", "MoveToPreviousLink", "MoveToFirst", "MoveToLast"}

\* C40: ScrollUp, ScrollDown, PageUp, PageDown, Home, End, MoveToNextLink,
\* MoveToPreviousLink, MoveToFirst and MoveToLast change nothing but
\* selectedIndex and scrollOffset: the markdown, the source path, the
\* renderedLines, the elements with their positions, currentWidth and both
\* stacks of the history stay; and when one that returns a boolean returns
\* false, selectedIndex and scrollOffset stay as well
NavigationFrame ==
    [][last'.op \in NavigationCalls =>
          /\ UNCHANGED <<markdown, currentSourceFile, renderedLines, elements,
                         currentWidth, history>>
          /\ (last'.op \notin {"Home", "End"} /\ ~last'.ret)
                 => UNCHANGED <<selectedIndex, scrollOffset>>]_vars

\* a MoveToNextLink from the last link of a scrolled page: false
NavigationFrameWitness ==
    /\ last.op = "MoveToNextLink"
    /\ ~last.ret
    /\ selectedIndex >= 0
    /\ scrollOffset > 0
    /\ history.backStack = <<>>

=============================================================================
